---- MODULE Spec2Model ----
(***************************************************************************)
(* State-machine model of the two on-chain programs of the repository:    *)
(* pinocchio_counter_program (per-owner counter) and                      *)
(* pinocchio_sol_vault_program (per-owner SOL vault).                     *)
(*                                                                         *)
(* The host (the virtual machine) is modelled by its account table: every *)
(* account has a lamport balance, a data buffer and an owning program.    *)
(* One instruction is processed at a time.  The host's rollback of a       *)
(* failed transaction is deliberately NOT modelled, so that whatever a    *)
(* failing instruction has already written stays visible in the state.    *)
(*                                                                         *)
(* history is a ledger kept beside the account table: what the delivered   *)
(* results say has happened to each storage account.  call is used by the  *)
(* specifications that apply one function of the programs to inputs drawn  *)
(* from bounded sets; it stays empty while instructions are processed.     *)
(***************************************************************************)
EXTENDS Integers, Sequences, FiniteSets, TLC

VARIABLES accounts, pc, ix, result, pre, initializations, history, call

vars == <<accounts, pc, ix, result, pre, initializations, history, call>>

----------------------------------------------------------------------------
(* Bounds of the model *)

\* lamports per byte of the host's Rent sysvar
RentRate == 1
\* Increment / Decrement are explored while the count is at most MaxCount
\* away from 0 or from u64::MAX
MaxCount == 1
\* largest balance above the rent-exempt minimum the vault of W1 is driven
\* to; the vault of W2 is driven to one lamport less
MaxVaultExtra == 2
\* largest number of lamports a storage address that holds no data is given
\* from outside the programs
MaxAirdrop == 1

\* how far below and above the rent-exempt minimum of the full record the
\* balance of a deactivated account is drawn
MaxSurplus == 1

\* how far around each fixed account size the lengths of the buffers handed
\* to the discriminator guard are drawn
MaxPad == 1

\* in the end-to-end scenario, Increment is explored while the count it
\* leaves is at most MaxScenarioCount
MaxScenarioCount == 3

\* instruction data handed to parse carries at most MaxPayload bytes after its
\* first byte
MaxPayload == 2

\* the address derivation is called at most MaxCalls times in a row
MaxCalls == 2

----------------------------------------------------------------------------
(* Bytes, u64 values and public keys *)

Byte == 0..255

Repeat(b, n) == [j \in 1..n |-> b]

Reverse(s) == [j \in 1..Len(s) |-> s[Len(s) + 1 - j]]

\* A u64 is kept as its 8 base-256 digits, most significant digit first.
U64Zero == Repeat(0, 8)
U64Max == Repeat(255, 8)

U64FromNat(n) == <<0, 0, 0, 0, (n \div 16777216) % 256, (n \div 65536) % 256, (n \div 256) % 256, n % 256>>

RECURSIVE U64AddOneAt(_, _)
U64AddOneAt(d, j) ==
    IF j = 0 THEN d
    ELSE IF d[j] = 255 THEN U64AddOneAt([d EXCEPT ![j] = 0], j - 1)
    ELSE [d EXCEPT ![j] = d[j] + 1]

RECURSIVE U64SubOneAt(_, _)
U64SubOneAt(d, j) ==
    IF j = 0 THEN d
    ELSE IF d[j] = 0 THEN U64SubOneAt([d EXCEPT ![j] = 255], j - 1)
    ELSE [d EXCEPT ![j] = d[j] - 1]

\* u64::wrapping_add(c, 1)
wrapping_add_one(c) == U64AddOneAt(c, 8)

\* u64::saturating_add(c, 1)
saturating_add_one(c) == IF c = U64Max THEN U64Max ELSE U64AddOneAt(c, 8)

\* u64::saturating_sub(c, 1)
saturating_sub_one(c) == IF c = U64Zero THEN U64Zero ELSE U64SubOneAt(c, 8)

\* u64::to_le_bytes / u64::from_le_bytes
to_le_bytes(c) == Reverse(c)
from_le_bytes(b) == Reverse(b)

\* lamports are small enough in the model to be plain naturals
saturating_sub(a, b) == IF a >= b THEN a - b ELSE 0

----------------------------------------------------------------------------
(* Identities *)

Wallets == {"W1", "W2"}
CounterStorage == {"C1", "C2"}
VaultStorage == {"V1", "V2"}
Storage == CounterStorage \cup VaultStorage
Names == Wallets \cup Storage \cup {"Sys"}
Programs == {"CounterProgram", "VaultProgram"}

COUNTER_V1_SEED == <<99, 111, 117, 110, 116, 101, 114, 95, 118, 49>>
VAULT_V1_SEED == <<118, 97, 117, 108, 116, 95, 118, 49>>

RECURSIVE SumBytes(_)
SumBytes(s) == IF s = <<>> THEN 0 ELSE Head(s) + SumBytes(Tail(s))

\* The hash of the address derivation, abstracted: the 32 bytes depend on the
\* seed, the owner, the program and the bump, and differ when one of them does.
HashAddress(seed, owner, program_id, bump) ==
    <<SumBytes(seed) % 256, owner[1], program_id[1], bump>> \o Repeat(77, 28)

\* whether a candidate address lies on the curve (then it is not a valid
\* program-derived address and the next bump is tried)
OnCurve(seed, owner, program_id, bump) ==
    (SumBytes(seed) + owner[1] + program_id[1] + bump) % 4 = 0

None == "None"

RECURSIVE TryBump(_, _, _, _)
TryBump(seed, owner, program_id, bump) ==
    IF bump < 0 THEN None
    ELSE IF ~OnCurve(seed, owner, program_id, bump)
         THEN [address |-> HashAddress(seed, owner, program_id, bump), bump |-> bump]
    ELSE TryBump(seed, owner, program_id, bump - 1)

try_find_program_address(seed, owner, program_id) == TryBump(seed, owner, program_id, 255)

SystemID == Repeat(0, 32)
WalletKey(w) == IF w = "W1" THEN Repeat(1, 32) ELSE Repeat(2, 32)
ProgramKey(p) == IF p = "CounterProgram" THEN Repeat(11, 32) ELSE Repeat(12, 32)

\* a derivation of the counter address that leaves the owner out of the seeds
try_find_counter_v1_without_owner(program_id, owner) ==
    try_find_program_address(COUNTER_V1_SEED, SystemID, program_id)

try_find_counter_v1(program_id, owner) == try_find_program_address(COUNTER_V1_SEED, owner, program_id)
find_counter_v1(program_id, owner) == try_find_counter_v1(program_id, owner)

\* a derivation of the vault address whose bump search goes on below the
\* bumps tried by the calls before it
try_find_vault_v1_resuming(program_id, owner) ==
    TryBump(VAULT_V1_SEED, owner, program_id, 255 - Len(call.results))

try_find_vault_v1(program_id, owner) == try_find_program_address(VAULT_V1_SEED, owner, program_id)
find_vault_v1(program_id, owner) == try_find_vault_v1(program_id, owner)

\* the wallet a storage account of the model was derived for
OwnerOf(s) == IF s \in {"C1", "V1"} THEN "W1" ELSE "W2"
ProgramOf(s) == IF s \in CounterStorage THEN "CounterProgram" ELSE "VaultProgram"
CounterOf(w) == IF w = "W1" THEN "C1" ELSE "C2"
VaultOf(w) == IF w = "W1" THEN "V1" ELSE "V2"

\* the public key of every account of the model
Pubkey(n) ==
    IF n \in Wallets THEN WalletKey(n)
    ELSE IF n = "Sys" THEN SystemID
    ELSE IF n \in CounterStorage
         THEN find_counter_v1(ProgramKey("CounterProgram"), WalletKey(OwnerOf(n))).address
    ELSE find_vault_v1(ProgramKey("VaultProgram"), WalletKey(OwnerOf(n))).address

----------------------------------------------------------------------------
(* The host: accounts, rent, the system program, resizing *)

OwnerKey(o) == IF o = "Sys" THEN SystemID ELSE ProgramKey(o)

\* AccountInfo accessors; a is an account of the instruction's account list
key(a) == Pubkey(a.key)
is_signer(a) == a.is_signer
is_writable(a) == a.is_writable
data_is_empty(acc, a) == acc[a.key].data = <<>>
lamports(acc, a) == acc[a.key].lamports
is_owned_by(acc, a, program) == OwnerKey(acc[a.key].owner) = program

ACCOUNT_STORAGE_OVERHEAD == 128
MAX_PERMITTED_DATA_INCREASE == 10240

\* Rent::minimum_balance
minimum_balance(size) == (ACCOUNT_STORAGE_OVERHEAD + size) * RentRate

\* outcome of a host primitive: err = "Ok" and the new account table, or the
\* ProgramError it returns and the account table it leaves behind
Done(acc) == [err |-> "Ok", detail |-> "", accounts |-> acc]
Failed(e, acc) == [err |-> e, detail |-> "", accounts |-> acc]

\* From<ProgramError> for the error type of an operation (the ? operator)
FromProgramError(r) == [err |-> "ProgramError", detail |-> r.err, accounts |-> r.accounts]

\* a transfer that credits the receiver and leaves the sender as it was
Transfer_invoke_without_debit(acc, from, to, amount) ==
    IF ~(from.is_signer /\ from.is_writable /\ to.is_writable)
    THEN Failed("PrivilegeEscalation", acc)
    ELSE IF acc[from.key].data # <<>> THEN Failed("InvalidArgument", acc)
    ELSE IF acc[from.key].lamports < amount THEN Failed("Custom(1)", acc)
    ELSE Done([acc EXCEPT ![to.key].lamports = @ + amount])

\* pinocchio_system::instructions::Transfer { from, to, lamports }.invoke()
Transfer_invoke(acc, from, to, amount) ==
    IF ~(from.is_signer /\ from.is_writable /\ to.is_writable)
    THEN Failed("PrivilegeEscalation", acc)
    ELSE IF acc[from.key].data # <<>> THEN Failed("InvalidArgument", acc)
    ELSE IF acc[from.key].lamports < amount THEN Failed("Custom(1)", acc)
    ELSE Done([acc EXCEPT ![from.key].lamports = @ - amount,
                          ![to.key].lamports = @ + amount])

\* CreateAccount { from, to, lamports, space, owner }.invoke_signed(seeds)
CreateAccount_invoke_signed(acc, from, to, amount, space, owner, seed, bump, caller) ==
    IF ~(from.is_signer /\ from.is_writable /\ to.is_writable)
    THEN Failed("PrivilegeEscalation", acc)
    ELSE IF HashAddress(seed, key(from), ProgramKey(caller), bump) # key(to)
    THEN Failed("PrivilegeEscalation", acc)
    ELSE IF acc[to.key].lamports > 0 \/ acc[to.key].data # <<>> \/ acc[to.key].owner # "Sys"
    THEN Failed("Custom(0)", acc)
    ELSE IF acc[from.key].lamports < amount THEN Failed("Custom(1)", acc)
    ELSE Done([acc EXCEPT ![from.key].lamports = @ - amount,
                          ![to.key] = [lamports |-> amount, data |-> Repeat(0, space), owner |-> owner]])

\* Allocate + Assign of an account that already holds lamports
AllocateAssign_invoke_signed(acc, to, payer, space, owner, seed, bump, caller) ==
    IF ~to.is_writable \/ HashAddress(seed, key(payer), ProgramKey(caller), bump) # key(to)
    THEN Failed("PrivilegeEscalation", acc)
    ELSE IF acc[to.key].data # <<>> \/ acc[to.key].owner # "Sys"
    THEN Failed("Custom(0)", acc)
    ELSE Done([acc EXCEPT ![to.key].data = Repeat(0, space), ![to.key].owner = owner])

\* an account creation that funds the new account one lamport short of the
\* rent-exempt minimum of its size
create_account_with_minimum_balance_signed_one_short(acc, account, space, owner, payer, seed, bump, caller) ==
    LET needed == minimum_balance(space) - 1 IN
    IF acc[account.key].lamports = 0
    THEN CreateAccount_invoke_signed(acc, payer, account, needed, space, owner, seed, bump, caller)
    ELSE LET required_lamports == saturating_sub(needed, acc[account.key].lamports)
             funded == IF required_lamports > 0
                       THEN Transfer_invoke(acc, payer, account, required_lamports)
                       ELSE Done(acc)
         IN IF funded.err # "Ok" THEN funded
            ELSE AllocateAssign_invoke_signed(funded.accounts, account, payer, space, owner, seed, bump, caller)

\* pinocchio_system::create_account_with_minimum_balance_signed
create_account_with_minimum_balance_signed(acc, account, space, owner, payer, seed, bump, caller) ==
    LET needed == minimum_balance(space) IN
    IF acc[account.key].lamports = 0
    THEN CreateAccount_invoke_signed(acc, payer, account, needed, space, owner, seed, bump, caller)
    ELSE LET required_lamports == saturating_sub(needed, acc[account.key].lamports)
             funded == IF required_lamports > 0
                       THEN Transfer_invoke(acc, payer, account, required_lamports)
                       ELSE Done(acc)
         IN IF funded.err # "Ok" THEN funded
            ELSE AllocateAssign_invoke_signed(funded.accounts, account, payer, space, owner, seed, bump, caller)

\* a resize that reports success and leaves the data buffer as it is
resize_without_effect(acc, a, new_len, original_len) == Done(acc)

\* AccountInfo::resize; original_len is the length at the start of the instruction
resize(acc, a, new_len, original_len) ==
    IF new_len > original_len + MAX_PERMITTED_DATA_INCREASE
    THEN Failed("InvalidRealloc", acc)
    ELSE Done([acc EXCEPT ![a.key].data =
                 IF new_len <= Len(@) THEN SubSeq(@, 1, new_len)
                 ELSE @ \o Repeat(0, new_len - Len(@))])

----------------------------------------------------------------------------
(* Account records and their encodings *)

DEACTIVATED_ACCOUNT_SIZE == 1

\* From<AccountDiscriminator> for u8
AccountDiscriminator_to_u8(d) == IF d = "DeactivatedAccount" THEN 255 ELSE 1

\* TryFrom<u8> for AccountDiscriminator of the counter program
CounterAccountDiscriminator_try_from(byte) ==
    IF byte = 1 THEN "CounterV1Account"
    ELSE IF byte = 255 THEN "DeactivatedAccount"
    ELSE "Invalid"

\* TryFrom<u8> for AccountDiscriminator of the vault program
VaultAccountDiscriminator_try_from(byte) ==
    IF byte = 1 THEN "VaultV1Account"
    ELSE IF byte = 255 THEN "DeactivatedAccount"
    ELSE "Invalid"

\* CounterV1::size(): discriminator + owner + bump + count + reserved
CounterV1_size == 1 + 32 + 1 + 8 + 31

\* VaultV1::size()
VAULT_V1_SIZE == 1 + 32 + 1
VaultV1_size == VAULT_V1_SIZE

\* decoders return a record whose err field is "Ok" or names the failure
ReadError == [err |-> "ReadError"]
InvalidAccountData == [err |-> "InvalidAccountData"]
InvalidInstructionData == [err |-> "InvalidInstructionData"]

\* a serialization that leaves out the reserved bytes
CounterV1_serialize_without_reserved(s) ==
    <<AccountDiscriminator_to_u8(s.discriminator)>> \o s.owner \o <<s.bump>>
        \o to_le_bytes(s.count)

\* CounterV1::serialize
CounterV1_serialize(s) ==
    <<AccountDiscriminator_to_u8(s.discriminator)>> \o s.owner \o <<s.bump>>
        \o to_le_bytes(s.count) \o s.reserved

\* CounterV1::deserialize
CounterV1_deserialize(src) ==
    IF Len(src) < CounterV1_size THEN ReadError
    ELSE IF CounterAccountDiscriminator_try_from(src[1]) = "Invalid" THEN ReadError
    ELSE [err |-> "Ok",
          discriminator |-> CounterAccountDiscriminator_try_from(src[1]),
          owner |-> SubSeq(src, 2, 33),
          bump |-> src[34],
          count |-> from_le_bytes(SubSeq(src, 35, 42)),
          reserved |-> SubSeq(src, 43, 73)]

\* VaultV1::to_bytes
VaultV1_to_bytes(s) ==
    <<AccountDiscriminator_to_u8(s.discriminator)>> \o s.owner \o <<s.bump>>

\* a decoder of the vault that takes the bump from the last byte of the owner
VaultV1_from_bytes_bump_of_owner(data) ==
    IF Len(data) # VaultV1_size THEN InvalidAccountData
    ELSE IF VaultAccountDiscriminator_try_from(data[1]) = "Invalid" THEN InvalidAccountData
    ELSE [err |-> "Ok",
          discriminator |-> VaultAccountDiscriminator_try_from(data[1]),
          owner |-> SubSeq(data, 2, 33),
          bump |-> data[33]]

\* VaultV1::from_bytes
VaultV1_from_bytes(data) ==
    IF Len(data) # VaultV1_size THEN InvalidAccountData
    ELSE IF VaultAccountDiscriminator_try_from(data[1]) = "Invalid" THEN InvalidAccountData
    ELSE [err |-> "Ok",
          discriminator |-> VaultAccountDiscriminator_try_from(data[1]),
          owner |-> SubSeq(data, 2, 33),
          bump |-> data[34]]

\* AccountDiscriminator::expected_account_size of the counter program
CounterAccountDiscriminator_expected_account_size(d) ==
    IF d = "CounterV1Account" THEN CounterV1_size ELSE 1

\* AccountDiscriminator::expected_account_size of the vault program
VaultAccountDiscriminator_expected_account_size(d) ==
    IF d = "VaultV1Account" THEN VaultV1_size ELSE 1

\* AccountDiscriminator::check of the counter program
CounterAccountDiscriminator_check(expected_discriminator, data) ==
    IF data = <<>> THEN "Missing"
    ELSE IF CounterAccountDiscriminator_try_from(data[1]) = "Invalid" THEN "Invalid"
    ELSE IF CounterAccountDiscriminator_try_from(data[1]) # expected_discriminator
    THEN "DiscriminatorMismatch"
    ELSE IF Len(data) # CounterAccountDiscriminator_expected_account_size(expected_discriminator)
    THEN "SerializedSizeMismatch"
    ELSE "Ok"

\* AccountDiscriminator::check of the counter program's state module
StateAccountDiscriminator_check(expected, data) ==
    IF data = <<>> THEN "Missing"
    ELSE IF CounterAccountDiscriminator_try_from(data[1]) = "Invalid" THEN "Invalid"
    ELSE IF CounterAccountDiscriminator_try_from(data[1]) # expected THEN "Mismatch"
    ELSE "Ok"

\* AccountDiscriminator::check of the vault program
VaultAccountDiscriminator_check(expected_discriminator, data) ==
    IF data = <<>> THEN "Missing"
    ELSE IF VaultAccountDiscriminator_try_from(data[1]) = "Invalid" THEN "Invalid"
    ELSE IF VaultAccountDiscriminator_try_from(data[1]) # expected_discriminator
    THEN "DiscriminatorMismatch"
    ELSE IF Len(data) # VaultAccountDiscriminator_expected_account_size(expected_discriminator)
    THEN "SerializedSizeMismatch"
    ELSE "Ok"

----------------------------------------------------------------------------
(* Validation of the account list: the TryFrom constructors *)

\* result of a validation: err = "Ok" with the derived bump, or the error
Accept(bump) == [err |-> "Ok", detail |-> "", bump |-> bump]
Reject(e) == [err |-> e, detail |-> "", bump |-> 0]
RejectWith(e, d) == [err |-> e, detail |-> d, bump |-> 0]
\* the error variant NotEnoughAccounts { expected, observed }
NotEnoughAccounts(expected, observed) ==
    RejectWith("NotEnoughAccounts", [expected |-> expected, observed |-> observed])

\* a validation of Initialize that does not look at the data of the counter
InitializeCounterV1Accounts_try_from_without_emptiness(program_id, accts, acc) ==
    IF Len(accts) # 3 THEN NotEnoughAccounts(3, Len(accts))
    ELSE LET payer == accts[1]
             counter == accts[2]
             system_program == accts[3]
             expected == find_counter_v1(program_id, key(payer))
         IN IF ~is_signer(payer) THEN Reject("PayerMustBeSigner")
            ELSE IF ~is_writable(counter) THEN Reject("CounterMustBeWriteable")
            ELSE IF key(counter) # expected.address THEN Reject("CounterAddressMismatch")
            ELSE IF lamports(acc, counter) > 0 THEN Reject("CounterMustHaveZeroLamports")
            ELSE IF ~is_owned_by(acc, counter, SystemID) THEN Reject("CounterMustBeOwnedBySystemProgram")
            ELSE IF key(system_program) # SystemID THEN Reject("SystemProgramAddressMismatch")
            ELSE Accept(expected.bump)

\* TryFrom<(&Pubkey, &[AccountInfo])> for InitializeCounterV1Accounts
InitializeCounterV1Accounts_try_from(program_id, accts, acc) ==
    IF Len(accts) # 3 THEN NotEnoughAccounts(3, Len(accts))
    ELSE LET payer == accts[1]
             counter == accts[2]
             system_program == accts[3]
             expected == find_counter_v1(program_id, key(payer))
         IN IF ~is_signer(payer) THEN Reject("PayerMustBeSigner")
            ELSE IF ~is_writable(counter) THEN Reject("CounterMustBeWriteable")
            ELSE IF key(counter) # expected.address THEN Reject("CounterAddressMismatch")
            ELSE IF ~data_is_empty(acc, counter) THEN Reject("CounterMustBeEmpty")
            ELSE IF lamports(acc, counter) > 0 THEN Reject("CounterMustHaveZeroLamports")
            ELSE IF ~is_owned_by(acc, counter, SystemID) THEN Reject("CounterMustBeOwnedBySystemProgram")
            ELSE IF key(system_program) # SystemID THEN Reject("SystemProgramAddressMismatch")
            ELSE Accept(expected.bump)

\* TryFrom<(&Pubkey, &[AccountInfo])> for DeactivateCounterV1Accounts
DeactivateCounterV1Accounts_try_from(program_id, accts, acc) ==
    IF Len(accts) # 3 THEN NotEnoughAccounts(3, Len(accts))
    ELSE LET owner == accts[1]
             counter == accts[2]
             system_program == accts[3]
             expected == find_counter_v1(program_id, key(owner))
         IN IF ~is_signer(owner) THEN Reject("OwnerMustBeSigner")
            ELSE IF ~is_writable(owner) THEN Reject("OwnerMustBeWritable")
            ELSE IF ~is_writable(counter) THEN Reject("CounterMustBeWriteable")
            ELSE IF key(counter) # expected.address THEN Reject("CounterAddressMismatch")
            ELSE IF ~is_owned_by(acc, counter, program_id) THEN Reject("CounterMustBeOwnedByProgram")
            ELSE IF key(system_program) # SystemID THEN Reject("SystemProgramAddressMismatch")
            ELSE Accept(expected.bump)

\* a validation of Increment that compares the address before it looks at
\* the flags
IncrementCountV1Accounts_try_from_address_first(program_id, accts, acc) ==
    IF Len(accts) # 2 THEN NotEnoughAccounts(2, Len(accts))
    ELSE LET owner == accts[1]
             counter == accts[2]
             expected == find_counter_v1(program_id, key(owner))
         IN IF key(counter) # expected.address THEN Reject("CounterAddressMismatch")
            ELSE IF ~is_signer(owner) THEN Reject("OwnerMustBeSigner")
            ELSE IF ~is_writable(owner) THEN Reject("OwnerMustBeWritable")
            ELSE IF ~is_writable(counter) THEN Reject("CounterMustBeWriteable")
            ELSE IF ~is_owned_by(acc, counter, program_id) THEN Reject("CounterMustBeOwnedByProgram")
            ELSE Accept(expected.bump)

\* TryFrom<(&Pubkey, &[AccountInfo])> for IncrementCountV1Accounts
IncrementCountV1Accounts_try_from(program_id, accts, acc) ==
    IF Len(accts) # 2 THEN NotEnoughAccounts(2, Len(accts))
    ELSE LET owner == accts[1]
             counter == accts[2]
             expected == find_counter_v1(program_id, key(owner))
         IN IF ~is_signer(owner) THEN Reject("OwnerMustBeSigner")
            ELSE IF ~is_writable(owner) THEN Reject("OwnerMustBeWritable")
            ELSE IF ~is_writable(counter) THEN Reject("CounterMustBeWriteable")
            ELSE IF key(counter) # expected.address THEN Reject("CounterAddressMismatch")
            ELSE IF ~is_owned_by(acc, counter, program_id) THEN Reject("CounterMustBeOwnedByProgram")
            ELSE Accept(expected.bump)

\* TryFrom<(&Pubkey, &[AccountInfo])> for DecrementCountV1Accounts
DecrementCountV1Accounts_try_from(program_id, accts, acc) ==
    IF Len(accts) # 2 THEN NotEnoughAccounts(2, Len(accts))
    ELSE LET owner == accts[1]
             counter == accts[2]
             expected == find_counter_v1(program_id, key(owner))
         IN IF ~is_signer(owner) THEN Reject("OwnerMustBeSigner")
            ELSE IF ~is_writable(counter) THEN Reject("CounterMustBeWriteable")
            ELSE IF key(counter) # expected.address THEN Reject("CounterAddressMismatch")
            ELSE IF ~is_owned_by(acc, counter, program_id) THEN Reject("CounterMustBeOwnedByProgram")
            ELSE Accept(expected.bump)

\* a validation of SetCount that does not look at the writable flags
SetCountV1Accounts_try_from_without_writable(program_id, accts, acc) ==
    IF Len(accts) # 2 THEN NotEnoughAccounts(2, Len(accts))
    ELSE LET owner == accts[1]
             counter == accts[2]
             expected == find_counter_v1(program_id, key(owner))
         IN IF ~is_signer(owner) THEN Reject("OwnerMustBeSigner")
            ELSE IF key(counter) # expected.address THEN Reject("CounterAddressMismatch")
            ELSE IF ~is_owned_by(acc, counter, program_id) THEN Reject("CounterMustBeOwnedByProgram")
            ELSE Accept(expected.bump)

\* TryFrom<(&Pubkey, &[AccountInfo])> for SetCountV1Accounts
SetCountV1Accounts_try_from(program_id, accts, acc) ==
    IF Len(accts) # 2 THEN NotEnoughAccounts(2, Len(accts))
    ELSE LET owner == accts[1]
             counter == accts[2]
             expected == find_counter_v1(program_id, key(owner))
         IN IF ~is_signer(owner) THEN Reject("OwnerMustBeSigner")
            ELSE IF ~is_writable(owner) THEN Reject("OwnerMustBeWritable")
            ELSE IF ~is_writable(counter) THEN Reject("CounterMustBeWriteable")
            ELSE IF key(counter) # expected.address THEN Reject("CounterAddressMismatch")
            ELSE IF ~is_owned_by(acc, counter, program_id) THEN Reject("CounterMustBeOwnedByProgram")
            ELSE Accept(expected.bump)

\* a decoder of the SetCount arguments that reads the u64 most significant
\* byte first
SetCountV1Args_deserialize_big_endian(src) ==
    IF Len(src) < 8 THEN ReadError
    ELSE [err |-> "Ok", count |-> SubSeq(src, 1, 8)]

\* SetCountV1Args::deserialize
SetCountV1Args_deserialize(src) ==
    IF Len(src) < 8 THEN ReadError
    ELSE [err |-> "Ok", count |-> from_le_bytes(SubSeq(src, 1, 8))]

\* TryFrom<(&Pubkey, &[AccountInfo], &[u8])> for SetCountV1
SetCountV1_try_from(program_id, accts, args, acc) ==
    LET a == SetCountV1Accounts_try_from(program_id, accts, acc) IN
    IF a.err # "Ok" THEN a
    ELSE IF SetCountV1Args_deserialize(args).err # "Ok" THEN Reject("DeserializeError")
    ELSE a

\* a validation of Reactivate that asks for the discriminator of an Active
\* counter, so that a Deactivated counter can never come back
ReactivateCounterV1Accounts_try_from_expects_active(program_id, accts, acc) ==
    IF Len(accts) # 3 THEN NotEnoughAccounts(3, Len(accts))
    ELSE LET payer == accts[1]
             counter == accts[2]
             system_program == accts[3]
             expected == find_counter_v1(program_id, key(payer))
         IN IF ~is_signer(payer) THEN Reject("PayerMustBeSigner")
            ELSE IF ~is_writable(payer) THEN Reject("PayerMustBeWriteable")
            ELSE IF ~is_writable(counter) THEN Reject("CounterMustBeWriteable")
            ELSE IF key(counter) # expected.address THEN Reject("CounterAddressMismatch")
            ELSE IF key(system_program) # SystemID THEN Reject("SystemProgramAddressMismatch")
            ELSE IF CounterAccountDiscriminator_check("CounterV1Account", acc[counter.key].data) # "Ok"
            THEN RejectWith("AccountDiscriminatorError",
                            CounterAccountDiscriminator_check("CounterV1Account", acc[counter.key].data))
            ELSE Accept(expected.bump)

\* TryFrom<(&Pubkey, &[AccountInfo])> for ReactivateCounterV1Accounts
ReactivateCounterV1Accounts_try_from(program_id, accts, acc) ==
    IF Len(accts) # 3 THEN NotEnoughAccounts(3, Len(accts))
    ELSE LET payer == accts[1]
             counter == accts[2]
             system_program == accts[3]
             expected == find_counter_v1(program_id, key(payer))
         IN IF ~is_signer(payer) THEN Reject("PayerMustBeSigner")
            ELSE IF ~is_writable(payer) THEN Reject("PayerMustBeWriteable")
            ELSE IF ~is_writable(counter) THEN Reject("CounterMustBeWriteable")
            ELSE IF key(counter) # expected.address THEN Reject("CounterAddressMismatch")
            ELSE IF key(system_program) # SystemID THEN Reject("SystemProgramAddressMismatch")
            ELSE IF CounterAccountDiscriminator_check("DeactivatedAccount", acc[counter.key].data) # "Ok"
            THEN RejectWith("AccountDiscriminatorError",
                            CounterAccountDiscriminator_check("DeactivatedAccount", acc[counter.key].data))
            ELSE Accept(expected.bump)

\* a validation of Initialize that does not look at the lamports of the vault
InitializeVaultV1Accounts_try_from_without_lamports(program_id, accts, acc) ==
    IF Len(accts) # 3 THEN NotEnoughAccounts(3, Len(accts))
    ELSE LET payer == accts[1]
             vault == accts[2]
             system_program == accts[3]
             expected == find_vault_v1(program_id, key(payer))
         IN IF ~is_signer(payer) THEN Reject("PayerMustBeSigner")
            ELSE IF ~is_writable(payer) THEN Reject("PayerMustBeWriteable")
            ELSE IF ~is_writable(vault) THEN Reject("VaultMustBeWriteable")
            ELSE IF key(vault) # expected.address THEN Reject("VaultAddressMismatch")
            ELSE IF ~data_is_empty(acc, vault) THEN Reject("VaultMustBeEmpty")
            ELSE IF ~is_owned_by(acc, vault, SystemID) THEN Reject("VaultMustBeOwnedBySystemProgram")
            ELSE IF key(system_program) # SystemID THEN Reject("SystemProgramAddressMismatch")
            ELSE Accept(expected.bump)

\* TryFrom<(&Pubkey, &[AccountInfo])> for InitializeVaultV1Accounts
InitializeVaultV1Accounts_try_from(program_id, accts, acc) ==
    IF Len(accts) # 3 THEN NotEnoughAccounts(3, Len(accts))
    ELSE LET payer == accts[1]
             vault == accts[2]
             system_program == accts[3]
             expected == find_vault_v1(program_id, key(payer))
         IN IF ~is_signer(payer) THEN Reject("PayerMustBeSigner")
            ELSE IF ~is_writable(payer) THEN Reject("PayerMustBeWriteable")
            ELSE IF ~is_writable(vault) THEN Reject("VaultMustBeWriteable")
            ELSE IF key(vault) # expected.address THEN Reject("VaultAddressMismatch")
            ELSE IF ~data_is_empty(acc, vault) THEN Reject("VaultMustBeEmpty")
            ELSE IF lamports(acc, vault) > 0 THEN Reject("VaultMustHaveZeroLamports")
            ELSE IF ~is_owned_by(acc, vault, SystemID) THEN Reject("VaultMustBeOwnedBySystemProgram")
            ELSE IF key(system_program) # SystemID THEN Reject("SystemProgramAddressMismatch")
            ELSE Accept(expected.bump)

\* TryFrom<(&Pubkey, &[AccountInfo])> for DepositV1Accounts
DepositV1Accounts_try_from(program_id, accts, acc) ==
    IF Len(accts) # 3 THEN NotEnoughAccounts(3, Len(accts))
    ELSE LET owner == accts[1]
             vault == accts[2]
             system_program == accts[3]
             expected == find_vault_v1(program_id, key(owner))
         IN IF ~is_signer(owner) THEN Reject("OwnerMustBeSigner")
            ELSE IF ~is_writable(owner) THEN Reject("OwnerMustBeWriteable")
            ELSE IF ~is_writable(vault) THEN Reject("VaultMustBeWriteable")
            ELSE IF key(vault) # expected.address THEN Reject("VaultAddressMismatch")
            ELSE IF ~is_owned_by(acc, vault, program_id) THEN Reject("VaultMustBeOwnedByProgram")
            ELSE IF VaultAccountDiscriminator_check("VaultV1Account", acc[vault.key].data) # "Ok"
            THEN RejectWith("AccountDiscriminatorError",
                            VaultAccountDiscriminator_check("VaultV1Account", acc[vault.key].data))
            ELSE IF key(system_program) # SystemID THEN Reject("SystemProgramAddressMismatch")
            ELSE Accept(expected.bump)

\* the u64 amount of a Deposit / Withdraw as a number of lamports
RECURSIVE U64ToNatFrom(_, _)
U64ToNatFrom(d, j) == IF j = 0 THEN 0 ELSE d[j] + 256 * U64ToNatFrom(d, j - 1)
U64ToNat(d) == U64ToNatFrom(d, 8)

\* DepositV1Args::parse
DepositV1Args_parse(data) ==
    IF Len(data) < 8 THEN InvalidInstructionData
    ELSE [err |-> "Ok", amount |-> U64ToNat(from_le_bytes(SubSeq(data, 1, 8)))]

\* TryFrom<(&Pubkey, &[AccountInfo], &[u8])> for DepositV1
DepositV1_try_from(program_id, accts, args, acc) ==
    LET a == DepositV1Accounts_try_from(program_id, accts, acc) IN
    IF a.err # "Ok" THEN a
    ELSE IF DepositV1Args_parse(args).err # "Ok" THEN Reject("InvalidInstructionData")
    ELSE a

\* a validation of Withdraw that only asks for enough accounts and ignores the
\* accounts after the second
WithdrawV1Accounts_try_from_at_least(program_id, accts, acc) ==
    IF Len(accts) < 2 THEN NotEnoughAccounts(2, Len(accts))
    ELSE LET owner == accts[1]
             vault == accts[2]
             expected == find_vault_v1(program_id, key(owner))
         IN IF ~is_signer(owner) THEN Reject("OwnerMustBeSigner")
            ELSE IF ~is_writable(owner) THEN Reject("OwnerMustBeWriteable")
            ELSE IF ~is_writable(vault) THEN Reject("VaultMustBeWriteable")
            ELSE IF key(vault) # expected.address THEN Reject("VaultAddressMismatch")
            ELSE IF ~is_owned_by(acc, vault, program_id) THEN Reject("VaultMustBeOwnedByProgram")
            ELSE IF VaultAccountDiscriminator_check("VaultV1Account", acc[vault.key].data) # "Ok"
            THEN RejectWith("AccountDiscriminatorError",
                            VaultAccountDiscriminator_check("VaultV1Account", acc[vault.key].data))
            ELSE Accept(expected.bump)

\* TryFrom<(&Pubkey, &[AccountInfo])> for WithdrawV1Accounts
WithdrawV1Accounts_try_from(program_id, accts, acc) ==
    IF Len(accts) # 2 THEN NotEnoughAccounts(2, Len(accts))
    ELSE LET owner == accts[1]
             vault == accts[2]
             expected == find_vault_v1(program_id, key(owner))
         IN IF ~is_signer(owner) THEN Reject("OwnerMustBeSigner")
            ELSE IF ~is_writable(owner) THEN Reject("OwnerMustBeWriteable")
            ELSE IF ~is_writable(vault) THEN Reject("VaultMustBeWriteable")
            ELSE IF key(vault) # expected.address THEN Reject("VaultAddressMismatch")
            ELSE IF ~is_owned_by(acc, vault, program_id) THEN Reject("VaultMustBeOwnedByProgram")
            ELSE IF VaultAccountDiscriminator_check("VaultV1Account", acc[vault.key].data) # "Ok"
            THEN RejectWith("AccountDiscriminatorError",
                            VaultAccountDiscriminator_check("VaultV1Account", acc[vault.key].data))
            ELSE Accept(expected.bump)

\* WithdrawV1Args::parse
WithdrawV1Args_parse(data) ==
    IF Len(data) < 8 THEN InvalidInstructionData
    ELSE [err |-> "Ok", amount |-> U64ToNat(from_le_bytes(SubSeq(data, 1, 8)))]

\* TryFrom<(&Pubkey, &[AccountInfo], &[u8])> for WithdrawV1
WithdrawV1_try_from(program_id, accts, args, acc) ==
    LET a == WithdrawV1Accounts_try_from(program_id, accts, acc) IN
    IF a.err # "Ok" THEN a
    ELSE IF WithdrawV1Args_parse(args).err # "Ok" THEN Reject("InvalidInstructionData")
    ELSE a

\* a validation of the vault's Deactivate that does not compare the address
\* of the vault with the one derived for the signer
DeactivateVaultV1Accounts_try_from_without_address(program_id, accts, acc) ==
    IF Len(accts) # 2 THEN NotEnoughAccounts(2, Len(accts))
    ELSE LET owner == accts[1]
             vault == accts[2]
             expected == find_vault_v1(program_id, key(owner))
         IN IF ~is_signer(owner) THEN Reject("OwnerMustBeSigner")
            ELSE IF ~is_writable(owner) THEN Reject("OwnerMustBeWriteable")
            ELSE IF ~is_writable(vault) THEN Reject("VaultMustBeWriteable")
            ELSE IF VaultAccountDiscriminator_check("VaultV1Account", acc[vault.key].data) # "Ok"
            THEN RejectWith("AccountDiscriminatorError",
                            VaultAccountDiscriminator_check("VaultV1Account", acc[vault.key].data))
            ELSE Accept(expected.bump)

\* TryFrom<(&Pubkey, &[AccountInfo])> for DeactivateVaultV1Accounts
DeactivateVaultV1Accounts_try_from(program_id, accts, acc) ==
    IF Len(accts) # 2 THEN NotEnoughAccounts(2, Len(accts))
    ELSE LET owner == accts[1]
             vault == accts[2]
             expected == find_vault_v1(program_id, key(owner))
         IN IF ~is_signer(owner) THEN Reject("OwnerMustBeSigner")
            ELSE IF ~is_writable(owner) THEN Reject("OwnerMustBeWriteable")
            ELSE IF ~is_writable(vault) THEN Reject("VaultMustBeWriteable")
            ELSE IF key(vault) # expected.address THEN Reject("VaultAddressMismatch")
            ELSE IF VaultAccountDiscriminator_check("VaultV1Account", acc[vault.key].data) # "Ok"
            THEN RejectWith("AccountDiscriminatorError",
                            VaultAccountDiscriminator_check("VaultV1Account", acc[vault.key].data))
            ELSE Accept(expected.bump)

\* a validation of the vault's Reactivate that does not run the
\* discriminator guard
ReactivateVaultV1Accounts_try_from_without_guard(program_id, accts, acc) ==
    IF Len(accts) # 3 THEN NotEnoughAccounts(3, Len(accts))
    ELSE LET payer == accts[1]
             vault == accts[2]
             system_program == accts[3]
             expected == find_vault_v1(program_id, key(payer))
         IN IF ~is_signer(payer) THEN Reject("PayerMustBeSigner")
            ELSE IF ~is_writable(payer) THEN Reject("PayerMustBeWriteable")
            ELSE IF ~is_writable(vault) THEN Reject("VaultMustBeWriteable")
            ELSE IF key(vault) # expected.address THEN Reject("VaultAddressMismatch")
            ELSE IF key(system_program) # SystemID THEN Reject("SystemProgramAddressMismatch")
            ELSE Accept(expected.bump)

\* TryFrom<(&Pubkey, &[AccountInfo])> for ReactivateVaultV1Accounts
ReactivateVaultV1Accounts_try_from(program_id, accts, acc) ==
    IF Len(accts) # 3 THEN NotEnoughAccounts(3, Len(accts))
    ELSE LET payer == accts[1]
             vault == accts[2]
             system_program == accts[3]
             expected == find_vault_v1(program_id, key(payer))
         IN IF ~is_signer(payer) THEN Reject("PayerMustBeSigner")
            ELSE IF ~is_writable(payer) THEN Reject("PayerMustBeWriteable")
            ELSE IF ~is_writable(vault) THEN Reject("VaultMustBeWriteable")
            ELSE IF key(vault) # expected.address THEN Reject("VaultAddressMismatch")
            ELSE IF key(system_program) # SystemID THEN Reject("SystemProgramAddressMismatch")
            ELSE IF VaultAccountDiscriminator_check("DeactivatedAccount", acc[vault.key].data) # "Ok"
            THEN RejectWith("AccountDiscriminatorError",
                            VaultAccountDiscriminator_check("DeactivatedAccount", acc[vault.key].data))
            ELSE Accept(expected.bump)

----------------------------------------------------------------------------
(* Instruction discriminators *)

\* InstructionDiscriminator::parse of the counter program
CounterInstructionDiscriminator_parse(instruction_data) ==
    IF instruction_data = <<>> THEN [err |-> "Missing", op |-> "", args |-> <<>>]
    ELSE LET first == Head(instruction_data)
             rest == Tail(instruction_data)
             op == CASE first = 1 -> "InitializeCounterV1"
                     [] first = 2 -> "DeactivateCounterV1"
                     [] first = 3 -> "DecrementCountV1"
                     [] first = 4 -> "IncrementCountV1"
                     [] first = 5 -> "SetCountV1"
                     [] first = 6 -> "ReactivateCounterV1"
                     [] OTHER -> "Invalid"
         IN IF op = "Invalid" THEN [err |-> "Invalid", byte |-> first, op |-> "", args |-> <<>>]
            ELSE [err |-> "Ok", op |-> op, args |-> rest]

\* a parse of the vault program that hands the whole instruction data on as
\* the payload
VaultInstructionDiscriminator_parse_whole_data(instruction_data) ==
    IF instruction_data = <<>> THEN [err |-> "Missing", op |-> "", args |-> <<>>]
    ELSE LET first == Head(instruction_data)
             op == CASE first = 1 -> "InitializeVaultV1"
                     [] first = 2 -> "DepositV1"
                     [] first = 3 -> "WithdrawV1"
                     [] first = 4 -> "DeactivateVaultV1"
                     [] first = 5 -> "ReactivateVaultV1"
                     [] OTHER -> "Invalid"
         IN IF op = "Invalid" THEN [err |-> "Invalid", byte |-> first, op |-> "", args |-> <<>>]
            ELSE [err |-> "Ok", op |-> op, args |-> instruction_data]

\* InstructionDiscriminator::parse of the vault program
VaultInstructionDiscriminator_parse(instruction_data) ==
    IF instruction_data = <<>> THEN [err |-> "Missing", op |-> "", args |-> <<>>]
    ELSE LET first == Head(instruction_data)
             rest == Tail(instruction_data)
             op == CASE first = 1 -> "InitializeVaultV1"
                     [] first = 2 -> "DepositV1"
                     [] first = 3 -> "WithdrawV1"
                     [] first = 4 -> "DeactivateVaultV1"
                     [] first = 5 -> "ReactivateVaultV1"
                     [] OTHER -> "Invalid"
         IN IF op = "Invalid" THEN [err |-> "Invalid", byte |-> first, op |-> "", args |-> <<>>]
            ELSE [err |-> "Ok", op |-> op, args |-> rest]

\* the first step of process_instruction, for the program the instruction names
Parse(i) ==
    IF i.program = "CounterProgram" THEN CounterInstructionDiscriminator_parse(i.data)
    ELSE VaultInstructionDiscriminator_parse(i.data)

\* ProgramError::Custom(code)
ProgramError_Custom(code) == [custom |-> code]

INSTRUCTION_DISCRIMINATOR_ERROR_OFFSET == 0

\* From<InstructionDiscriminatorError> for ProgramError, the same in both
\* programs
InstructionDiscriminatorError_into(e) ==
    ProgramError_Custom(INSTRUCTION_DISCRIMINATOR_ERROR_OFFSET
                          + (CASE e.err = "Missing" -> 1
                               [] e.err = "Invalid" -> 2))

\* a ProgramError of the platform that is not a custom code
ProgramError_Builtin(name) == [builtin |-> name]

\* code offsets of the counter program: 0x100, 0x200, ... 0x600
INITIALIZE_COUNTER_V1_OFFSET == 256
DEACTIVATE_COUNTER_V1_OFFSET == 512
INCREMENT_COUNT_V1_OFFSET == 768
DECREMENT_COUNT_V1_OFFSET == 1024
SET_COUNT_V1_OFFSET == 1280
REACTIVATE_COUNTER_V1_OFFSET == 1536

\* code offsets of the vault program: 0x100, 0x200, ... 0x500
INITIALIZE_VAULT_V1_OFFSET == 256
DEPOSIT_V1_OFFSET == 512
WITHDRAW_V1_OFFSET == 768
DEACTIVATE_VAULT_V1_OFFSET == 1024
REACTIVATE_VAULT_V1_OFFSET == 1280

\* the arms of the inner matches of From<InstructionError> for ProgramError
\* in the counter program: the local code of each variant of each operation
CounterLocalCodes ==
    [InitializeCounterV1 |->
        [NotEnoughAccounts |-> 1, PayerMustBeSigner |-> 2, CounterMustBeWriteable |-> 3,
         CounterAddressMismatch |-> 4, CounterMustBeEmpty |-> 5,
         CounterMustHaveZeroLamports |-> 6, CounterMustBeOwnedBySystemProgram |-> 7,
         SystemProgramAddressMismatch |-> 8, DeserializeError |-> 9, SerializeError |-> 10,
         SerializedSizeMismatch |-> 11],
     DeactivateCounterV1 |->
        [NotEnoughAccounts |-> 1, OwnerMustBeSigner |-> 2, OwnerMustBeWriteable |-> 3,
         CounterMustBeWriteable |-> 4, CounterAddressMismatch |-> 5, DeserializeError |-> 8,
         AccountDiscriminatorError |-> 11],
     IncrementCountV1 |->
        [NotEnoughAccounts |-> 1, OwnerMustBeSigner |-> 2, CounterMustBeWriteable |-> 4,
         CounterAddressMismatch |-> 5, DeserializeError |-> 7, SerializeError |-> 8,
         SerializedSizeMismatch |-> 10, AccountDiscriminatorError |-> 11],
     DecrementCountV1 |->
        [NotEnoughAccounts |-> 1, OwnerMustBeSigner |-> 2, CounterMustBeWriteable |-> 4,
         CounterAddressMismatch |-> 5, DeserializeError |-> 7, SerializeError |-> 8,
         SerializedSizeMismatch |-> 10, AccountDiscriminatorError |-> 11],
     SetCountV1 |->
        [NotEnoughAccounts |-> 1, OwnerMustBeSigner |-> 2, CounterMustBeWriteable |-> 4,
         CounterAddressMismatch |-> 5, DeserializeError |-> 7, SerializeError |-> 8,
         SerializedSizeMismatch |-> 10, AccountDiscriminatorError |-> 11],
     ReactivateCounterV1 |->
        [NotEnoughAccounts |-> 1, PayerMustBeSigner |-> 2, CounterMustBeWriteable |-> 3,
         CounterAddressMismatch |-> 4, SystemProgramAddressMismatch |-> 6,
         DeserializeError |-> 7, SerializeError |-> 8, SerializedSizeMismatch |-> 10,
         AccountDiscriminatorError |-> 11]]

\* the same for the vault program
VaultLocalCodes ==
    [InitializeVaultV1 |->
        [NotEnoughAccounts |-> 1, PayerMustBeSigner |-> 2, PayerMustBeWriteable |-> 3,
         VaultMustBeWriteable |-> 4, VaultAddressMismatch |-> 5, VaultMustBeEmpty |-> 6,
         VaultMustHaveZeroLamports |-> 7, VaultMustBeOwnedBySystemProgram |-> 8,
         SystemProgramAddressMismatch |-> 9, SerializedSizeMismatch |-> 10],
     DepositV1 |->
        [NotEnoughAccounts |-> 1, OwnerMustBeSigner |-> 2, OwnerMustBeWriteable |-> 3,
         VaultMustBeWriteable |-> 4, VaultAddressMismatch |-> 5,
         VaultMustBeOwnedByProgram |-> 6, AccountDiscriminatorError |-> 7,
         InvalidInstructionData |-> 8, OwnerMismatch |-> 9],
     WithdrawV1 |->
        [NotEnoughAccounts |-> 1, OwnerMustBeSigner |-> 2, OwnerMustBeWriteable |-> 3,
         VaultMustBeWriteable |-> 4, VaultAddressMismatch |-> 5,
         VaultMustBeOwnedByProgram |-> 6, AccountDiscriminatorError |-> 7,
         InvalidInstructionData |-> 8, OwnerMismatch |-> 9, InsufficientFunds |-> 10,
         WouldViolateRentMinimum |-> 11],
     DeactivateVaultV1 |->
        [NotEnoughAccounts |-> 1, OwnerMustBeSigner |-> 2, OwnerMustBeWriteable |-> 3,
         VaultMustBeWriteable |-> 4, VaultAddressMismatch |-> 5,
         AccountDiscriminatorError |-> 6],
     ReactivateVaultV1 |->
        [NotEnoughAccounts |-> 1, PayerMustBeSigner |-> 2, PayerMustBeWriteable |-> 3,
         VaultMustBeWriteable |-> 4, VaultAddressMismatch |-> 5,
         SystemProgramAddressMismatch |-> 6, AccountDiscriminatorError |-> 7,
         SerializedSizeMismatch |-> 8]]

\* From<...Error> for InstructionError, the same for every operation: the
\* ProgramError variant is extracted, every other variant is wrapped
OperationError_into(op, err) ==
    IF err.variant = "ProgramError" THEN [kind |-> "ProgramError", pe |-> err.pe]
    ELSE [kind |-> op, variant |-> err.variant]

\* a conversion of the counter program in which Decrement shares the offset
\* of Increment
CounterInstructionError_into_shared_offset(e) ==
    IF e.kind = "ProgramError" THEN e.pe
    ELSE ProgramError_Custom(
             (CASE e.kind = "InitializeCounterV1" -> INITIALIZE_COUNTER_V1_OFFSET
                [] e.kind = "DeactivateCounterV1" -> DEACTIVATE_COUNTER_V1_OFFSET
                [] e.kind = "IncrementCountV1" -> INCREMENT_COUNT_V1_OFFSET
                [] e.kind = "DecrementCountV1" -> INCREMENT_COUNT_V1_OFFSET
                [] e.kind = "SetCountV1" -> SET_COUNT_V1_OFFSET
                [] e.kind = "ReactivateCounterV1" -> REACTIVATE_COUNTER_V1_OFFSET)
             + CounterLocalCodes[e.kind][e.variant])

\* From<InstructionError> for ProgramError of the counter program
CounterInstructionError_into(e) ==
    IF e.kind = "ProgramError" THEN e.pe
    ELSE ProgramError_Custom(
             (CASE e.kind = "InitializeCounterV1" -> INITIALIZE_COUNTER_V1_OFFSET
                [] e.kind = "DeactivateCounterV1" -> DEACTIVATE_COUNTER_V1_OFFSET
                [] e.kind = "IncrementCountV1" -> INCREMENT_COUNT_V1_OFFSET
                [] e.kind = "DecrementCountV1" -> DECREMENT_COUNT_V1_OFFSET
                [] e.kind = "SetCountV1" -> SET_COUNT_V1_OFFSET
                [] e.kind = "ReactivateCounterV1" -> REACTIVATE_COUNTER_V1_OFFSET)
             + CounterLocalCodes[e.kind][e.variant])

\* From<InstructionError> for ProgramError of the vault program
VaultInstructionError_into(e) ==
    IF e.kind = "ProgramError" THEN e.pe
    ELSE ProgramError_Custom(
             (CASE e.kind = "InitializeVaultV1" -> INITIALIZE_VAULT_V1_OFFSET
                [] e.kind = "DepositV1" -> DEPOSIT_V1_OFFSET
                [] e.kind = "WithdrawV1" -> WITHDRAW_V1_OFFSET
                [] e.kind = "DeactivateVaultV1" -> DEACTIVATE_VAULT_V1_OFFSET
                [] e.kind = "ReactivateVaultV1" -> REACTIVATE_VAULT_V1_OFFSET)
             + VaultLocalCodes[e.kind][e.variant])

----------------------------------------------------------------------------
(* The execute methods of the operations that run in one step *)

\* IncrementCountV1::execute
IncrementCountV1_execute(acc, accts) ==
    LET owner == accts[1]
        counter == accts[2]
        counter_state == CounterV1_deserialize(acc[counter.key].data)
    IN IF counter_state.err # "Ok" THEN Failed("DeserializeError", acc)
       ELSE IF counter_state.discriminator # "CounterV1Account" THEN Failed("DeserializeError", acc)
       ELSE IF counter_state.owner # key(owner) THEN Failed("OwnerMismatch", acc)
       ELSE LET serialized == CounterV1_serialize(
                                 [counter_state EXCEPT !.count = saturating_add_one(@)])
            IN IF Len(serialized) # CounterV1_size THEN Failed("SerializedSizeMismatch", acc)
               ELSE Done([acc EXCEPT ![counter.key].data = serialized])

\* DecrementCountV1::execute
DecrementCountV1_execute(acc, accts) ==
    LET owner == accts[1]
        counter == accts[2]
        counter_state == CounterV1_deserialize(acc[counter.key].data)
    IN IF counter_state.err # "Ok" THEN Failed("DeserializeError", acc)
       ELSE IF counter_state.discriminator # "CounterV1Account" THEN Failed("DeserializeError", acc)
       ELSE IF counter_state.owner # key(owner) THEN Failed("OwnerMismatch", acc)
       ELSE LET serialized == CounterV1_serialize(
                                 [counter_state EXCEPT !.count = saturating_sub_one(@)])
            IN IF Len(serialized) # CounterV1_size THEN Failed("SerializedSizeMismatch", acc)
               ELSE Done([acc EXCEPT ![counter.key].data = serialized])

\* a SetCount that writes a new record around the value instead of changing
\* the count of the record it decoded
SetCountV1_execute_new_record(acc, accts, args) ==
    LET owner == accts[1]
        counter == accts[2]
        counter_state == CounterV1_deserialize(acc[counter.key].data)
    IN IF counter_state.err # "Ok" THEN Failed("DeserializeError", acc)
       ELSE IF counter_state.discriminator # "CounterV1Account" THEN Failed("DeserializeError", acc)
       ELSE IF counter_state.owner # key(owner) THEN Failed("OwnerMismatch", acc)
       ELSE Done([acc EXCEPT ![counter.key].data =
                     CounterV1_serialize([discriminator |-> "CounterV1Account",
                                          owner |-> key(owner),
                                          bump |-> 0,
                                          count |-> SetCountV1Args_deserialize(args).count,
                                          reserved |-> Repeat(0, 31)])])

\* SetCountV1::execute
SetCountV1_execute(acc, accts, args) ==
    LET owner == accts[1]
        counter == accts[2]
        counter_state == CounterV1_deserialize(acc[counter.key].data)
    IN IF counter_state.err # "Ok" THEN Failed("DeserializeError", acc)
       ELSE IF counter_state.discriminator # "CounterV1Account" THEN Failed("DeserializeError", acc)
       ELSE IF counter_state.owner # key(owner) THEN Failed("OwnerMismatch", acc)
       ELSE LET serialized == CounterV1_serialize(
                                 [counter_state EXCEPT !.count = SetCountV1Args_deserialize(args).count])
            IN IF Len(serialized) # CounterV1_size THEN Failed("SerializedSizeMismatch", acc)
               ELSE Done([acc EXCEPT ![counter.key].data = serialized])

\* a Deposit that credits the vault without debiting the owner
DepositV1_execute_without_debit(acc, accts, args) ==
    LET owner == accts[1]
        vault == accts[2]
        amount == DepositV1Args_parse(args).amount
        vault_state == VaultV1_from_bytes(acc[vault.key].data)
    IN IF vault_state.err # "Ok" THEN FromProgramError(Failed(vault_state.err, acc))
       ELSE IF vault_state.owner # key(owner) THEN Failed("OwnerMismatch", acc)
       ELSE Done([acc EXCEPT ![vault.key].lamports = @ + amount])

\* DepositV1::execute
DepositV1_execute(acc, accts, args) ==
    LET owner == accts[1]
        vault == accts[2]
        amount == DepositV1Args_parse(args).amount
        vault_state == VaultV1_from_bytes(acc[vault.key].data)
    IN IF vault_state.err # "Ok" THEN FromProgramError(Failed(vault_state.err, acc))
       ELSE IF vault_state.owner # key(owner) THEN Failed("OwnerMismatch", acc)
       ELSE LET t == Transfer_invoke(acc, owner, vault, amount)
            IN IF t.err # "Ok" THEN FromProgramError(t) ELSE t

\* a Withdraw that pays out without comparing the amount with the balance
\* above the rent-exempt minimum
WithdrawV1_execute_without_balance_check(acc, accts, args) ==
    LET owner == accts[1]
        vault == accts[2]
        amount == WithdrawV1Args_parse(args).amount
        vault_state == VaultV1_from_bytes(acc[vault.key].data)
    IN IF vault_state.err # "Ok" THEN FromProgramError(Failed(vault_state.err, acc))
       ELSE IF vault_state.owner # key(owner) THEN Failed("OwnerMismatch", acc)
       ELSE IF acc[vault.key].lamports < amount THEN Failed("InsufficientFunds", acc)
       ELSE Done([acc EXCEPT ![vault.key].lamports = @ - amount,
                             ![owner.key].lamports = @ + amount])

\* a Withdraw that refuses to pay out the whole balance above the
\* rent-exempt minimum
WithdrawV1_execute_strict_comparison(acc, accts, args) ==
    LET owner == accts[1]
        vault == accts[2]
        amount == WithdrawV1Args_parse(args).amount
        vault_state == VaultV1_from_bytes(acc[vault.key].data)
        rent_exempt_minimum == minimum_balance(VaultV1_size)
        vault_lamports == acc[vault.key].lamports
        available == saturating_sub(vault_lamports, rent_exempt_minimum)
    IN IF vault_state.err # "Ok" THEN FromProgramError(Failed(vault_state.err, acc))
       ELSE IF vault_state.owner # key(owner) THEN Failed("OwnerMismatch", acc)
       ELSE IF available <= amount THEN Failed("InsufficientFunds", acc)
       ELSE Done([acc EXCEPT ![vault.key].lamports = @ - amount,
                             ![owner.key].lamports = @ + amount])

\* a Withdraw that credits the other wallet instead of the owner
WithdrawV1_execute_to_other_wallet(acc, accts, args) ==
    LET owner == accts[1]
        vault == accts[2]
        amount == WithdrawV1Args_parse(args).amount
        vault_state == VaultV1_from_bytes(acc[vault.key].data)
        rent_exempt_minimum == minimum_balance(VaultV1_size)
        vault_lamports == acc[vault.key].lamports
        available == saturating_sub(vault_lamports, rent_exempt_minimum)
        remaining_after_withdraw == saturating_sub(vault_lamports, amount)
    IN IF vault_state.err # "Ok" THEN FromProgramError(Failed(vault_state.err, acc))
       ELSE IF vault_state.owner # key(owner) THEN Failed("OwnerMismatch", acc)
       ELSE IF available < amount THEN Failed("InsufficientFunds", acc)
       ELSE IF remaining_after_withdraw < rent_exempt_minimum THEN Failed("WouldViolateRentMinimum", acc)
       ELSE Done([acc EXCEPT ![vault.key].lamports = @ - amount,
                             ![IF owner.key = "W1" THEN "W2" ELSE "W1"].lamports = @ + amount])

\* WithdrawV1::execute
WithdrawV1_execute(acc, accts, args) ==
    LET owner == accts[1]
        vault == accts[2]
        amount == WithdrawV1Args_parse(args).amount
        vault_state == VaultV1_from_bytes(acc[vault.key].data)
        rent_exempt_minimum == minimum_balance(VaultV1_size)
        vault_lamports == acc[vault.key].lamports
        available == saturating_sub(vault_lamports, rent_exempt_minimum)
        remaining_after_withdraw == saturating_sub(vault_lamports, amount)
    IN IF vault_state.err # "Ok" THEN FromProgramError(Failed(vault_state.err, acc))
       ELSE IF vault_state.owner # key(owner) THEN Failed("OwnerMismatch", acc)
       ELSE IF available < amount THEN Failed("InsufficientFunds", acc)
       ELSE IF remaining_after_withdraw < rent_exempt_minimum THEN Failed("WouldViolateRentMinimum", acc)
       ELSE Done([acc EXCEPT ![vault.key].lamports = @ - amount,
                             ![owner.key].lamports = @ + amount])

----------------------------------------------------------------------------
(* Instructions submitted to the programs *)

Meta(k, s, w) == [key |-> k, is_signer |-> s, is_writable |-> w]

StorageOf(program, w) == IF program = "CounterProgram" THEN CounterOf(w) ELSE VaultOf(w)
OtherWallet(w) == IF w = "W1" THEN "W2" ELSE "W1"

\* ways in which a submitted account list departs from the well-formed one
DefectKinds == {"NoSigner", "SignerReadonly", "StorageReadonly", "WrongAddress",
                "WrongSystem", "Short", "Long"}

\* an account list carries at most two defects; an extra account comes alone
DefectSets == {D \in SUBSET DefectKinds : Cardinality(D) <= 2 /\ ("Long" \in D => D = {"Long"})}

\* the account list signed by wallet w for an operation of program that needs
\* `required` accounts, with the defects D
AccountList(program, w, D, required) ==
    LET a1 == Meta(w, "NoSigner" \notin D, "SignerReadonly" \notin D)
        a2 == Meta(StorageOf(program, IF "WrongAddress" \in D THEN OtherWallet(w) ELSE w),
                   FALSE, "StorageReadonly" \notin D)
        a3 == Meta(IF "WrongSystem" \in D THEN OtherWallet(w) ELSE "Sys", FALSE, FALSE)
        n == required + (IF "Long" \in D THEN 1 ELSE 0) - (IF "Short" \in D THEN 1 ELSE 0)
    IN SubSeq(<<a1, a2, a3, a3>>, 1, n)

\* W1 submits every defect set, W2 the well-formed list and the list that
\* names the storage account of W1
AccountLists(program, required) ==
    {AccountList(program, "W1", D, required) : D \in DefectSets}
    \cup {AccountList(program, "W2", D, required) : D \in {{}, {"WrongAddress"}}}

WellFormedLists(program, required) ==
    {AccountList(program, w, {}, required) : w \in Wallets}

Instruction(program, data, accts) == [program |-> program, data |-> data, accounts |-> accts]

\* instructions of an operation without arguments
PlainInputs(program, discriminator, required) ==
    {Instruction(program, <<discriminator>>, l) : l \in AccountLists(program, required)}

\* instructions of an operation with arguments: every account list with the
\* first argument value, the well-formed lists with every argument value
ArgInputs(program, discriminator, required, first, others) ==
    {Instruction(program, <<discriminator>> \o first, l) : l \in AccountLists(program, required)}
    \cup {Instruction(program, <<discriminator>> \o a, l) :
             a \in others, l \in WellFormedLists(program, required)}

\* values a SetCount instruction carries
SetCountValues == {U64FromNat(42), U64Max}
\* amounts a Deposit or a Withdraw instruction carries
Amounts == 0..(MaxVaultExtra + 1)
ShortArgs == <<1, 2, 3>>

CounterInputs ==
    PlainInputs("CounterProgram", 1, 3) \cup PlainInputs("CounterProgram", 2, 3)
    \cup PlainInputs("CounterProgram", 3, 2) \cup PlainInputs("CounterProgram", 4, 2)
    \cup ArgInputs("CounterProgram", 5, 2, to_le_bytes(U64Zero),
                   {to_le_bytes(v) : v \in SetCountValues} \cup {ShortArgs})
    \cup PlainInputs("CounterProgram", 6, 3)

VaultInputs ==
    PlainInputs("VaultProgram", 1, 3)
    \cup ArgInputs("VaultProgram", 2, 3, to_le_bytes(U64FromNat(1)),
                   {to_le_bytes(U64FromNat(a)) : a \in Amounts} \cup {ShortArgs})
    \cup ArgInputs("VaultProgram", 3, 2, to_le_bytes(U64FromNat(1)),
                   {to_le_bytes(U64FromNat(a)) : a \in Amounts} \cup {ShortArgs})
    \cup PlainInputs("VaultProgram", 4, 2) \cup PlainInputs("VaultProgram", 5, 3)

\* instruction data that names no operation
BadInputs ==
    UNION {{Instruction(p, d, l) : d \in {<<>>, <<0>>, <<7, 0>>}, l \in WellFormedLists(p, 2)} :
              p \in Programs}

Inputs == CounterInputs \cup VaultInputs \cup BadInputs

NoInstruction == Instruction("None", <<>>, <<>>)

\* no function is being applied
NoCall == [f |-> "None"]

\* the ledger before any instruction: nothing deposited, no count dropped
NoHistory ==
    [deposited |-> [v \in VaultStorage |-> 0],
     dropped_count |-> [c \in CounterStorage |-> FALSE]]

----------------------------------------------------------------------------
(* Results *)

Outcome(op, e, d) == [op |-> op, err |-> e, detail |-> d]
NoResult == Outcome("None", "None", "")
Pending(op) == Outcome(op, "Pending", "")

\* the instruction returns: handle_instruction_error / Ok(())
Return(op, r) ==
    /\ accounts' = r.accounts
    /\ result' = Outcome(op, r.err, r.detail)
    /\ pc' = "returned"
    /\ UNCHANGED <<history, call>>

\* the instruction goes on to its next step
Continue(op, acc, next) ==
    /\ accounts' = acc
    /\ result' = Pending(op)
    /\ pc' = next
    /\ UNCHANGED <<history, call>>

\* process_instruction is entered with instruction i
Enter(i, op) ==
    /\ Parse(i).err = "Ok"
    /\ Parse(i).op = op
    /\ ix' = i
    /\ pre' = accounts
    /\ UNCHANGED initializations

\* the window of counts the model explores
RECURSIVE U64Near(_, _, _)
U64Near(c, target, n) ==
    IF c = target THEN TRUE
    ELSE IF n = 0 THEN FALSE
    ELSE U64Near(saturating_add_one(c), target, n - 1)

CountInWindow(c) == U64Near(U64Zero, c, MaxCount) \/ U64Near(c, U64Max, MaxCount)

Rejected(v, acc) == [err |-> v.err, detail |-> v.detail, accounts |-> acc]

CountOf(acc, k) == CounterV1_deserialize(acc[k].data).count

----------------------------------------------------------------------------
(* Counter program: one action per operation, and per later step of the    *)
(* operations whose execute changes the account in several steps           *)

\* InitializeCounterV1: validation and account creation
InitializeCounterV1 ==
    /\ pc = "idle"
    /\ \E i \in Inputs :
        /\ Enter(i, "InitializeCounterV1")
        /\ LET v == InitializeCounterV1Accounts_try_from(ProgramKey(i.program), i.accounts, accounts)
           IN IF v.err # "Ok" THEN Return("InitializeCounterV1", Rejected(v, accounts))
              ELSE LET c == create_account_with_minimum_balance_signed(
                                accounts, i.accounts[2], CounterV1_size, i.program,
                                i.accounts[1], COUNTER_V1_SEED, v.bump, i.program)
                   IN IF c.err # "Ok" THEN Return("InitializeCounterV1", FromProgramError(c))
                      ELSE Continue("InitializeCounterV1", c.accounts, "InitializeCounterV1_write")

\* an Initialize that writes the record without the derived bump
InitializeCounterV1_write_without_bump ==
    /\ pc = "InitializeCounterV1_write"
    /\ LET payer == ix.accounts[1]
           counter == ix.accounts[2]
           state == [discriminator |-> "CounterV1Account",
                     owner |-> key(payer),
                     bump |-> 0,
                     count |-> U64Zero,
                     reserved |-> Repeat(0, 31)]
       IN /\ Return("InitializeCounterV1",
                    Done([accounts EXCEPT ![counter.key].data = CounterV1_serialize(state)]))
          /\ initializations' = [initializations EXCEPT ![counter.key] = @ + 1]
    /\ UNCHANGED <<ix, pre>>

\* an Initialize that writes the program's identity into the owner field
InitializeCounterV1_write_owner_of_program ==
    /\ pc = "InitializeCounterV1_write"
    /\ LET payer == ix.accounts[1]
           counter == ix.accounts[2]
           state == [discriminator |-> "CounterV1Account",
                     owner |-> ProgramKey(ix.program),
                     bump |-> find_counter_v1(ProgramKey(ix.program), key(payer)).bump,
                     count |-> U64Zero,
                     reserved |-> Repeat(0, 31)]
       IN /\ Return("InitializeCounterV1",
                    Done([accounts EXCEPT ![counter.key].data = CounterV1_serialize(state)]))
          /\ initializations' = [initializations EXCEPT ![counter.key] = @ + 1]
    /\ UNCHANGED <<ix, pre>>

\* InitializeCounterV1::execute, the record is serialized and written
InitializeCounterV1_write ==
    /\ pc = "InitializeCounterV1_write"
    /\ LET payer == ix.accounts[1]
           counter == ix.accounts[2]
           state == [discriminator |-> "CounterV1Account",
                     owner |-> key(payer),
                     bump |-> find_counter_v1(ProgramKey(ix.program), key(payer)).bump,
                     count |-> U64Zero,
                     reserved |-> Repeat(0, 31)]
           serialized == CounterV1_serialize(state)
       IN IF Len(serialized) # CounterV1_size
          THEN /\ Return("InitializeCounterV1", Failed("SerializedSizeMismatch", accounts))
               /\ UNCHANGED initializations
          ELSE /\ Return("InitializeCounterV1",
                         Done([accounts EXCEPT ![counter.key].data = serialized]))
               /\ initializations' = [initializations EXCEPT ![counter.key] = @ + 1]
    /\ UNCHANGED <<ix, pre>>

\* a Deactivate that shrinks the account before it rewrites the discriminator
DeactivateCounterV1_resize_first ==
    /\ pc = "idle"
    /\ \E i \in Inputs :
        /\ Enter(i, "DeactivateCounterV1")
        /\ LET v == DeactivateCounterV1Accounts_try_from(ProgramKey(i.program), i.accounts, accounts)
               owner == i.accounts[1]
               counter == i.accounts[2]
               counter_state == CounterV1_deserialize(accounts[counter.key].data)
           IN IF v.err # "Ok" THEN Return("DeactivateCounterV1", Rejected(v, accounts))
              ELSE IF counter_state.err # "Ok"
              THEN Return("DeactivateCounterV1", Failed("DeserializeError", accounts))
              ELSE IF counter_state.discriminator # "CounterV1Account"
              THEN Return("DeactivateCounterV1", Failed("DeserializeError", accounts))
              ELSE IF counter_state.owner # key(owner)
              THEN Return("DeactivateCounterV1", Failed("OwnerMismatch", accounts))
              ELSE Continue("DeactivateCounterV1",
                            resize(accounts, counter, DEACTIVATED_ACCOUNT_SIZE,
                                   Len(accounts[counter.key].data)).accounts,
                            "DeactivateCounterV1_resize")

\* DeactivateCounterV1: validation, decoding, the discriminator is rewritten
DeactivateCounterV1 ==
    /\ pc = "idle"
    /\ \E i \in Inputs :
        /\ Enter(i, "DeactivateCounterV1")
        /\ LET v == DeactivateCounterV1Accounts_try_from(ProgramKey(i.program), i.accounts, accounts)
               owner == i.accounts[1]
               counter == i.accounts[2]
               counter_state == CounterV1_deserialize(accounts[counter.key].data)
           IN IF v.err # "Ok" THEN Return("DeactivateCounterV1", Rejected(v, accounts))
              ELSE IF counter_state.err # "Ok"
              THEN Return("DeactivateCounterV1", Failed("DeserializeError", accounts))
              ELSE IF counter_state.discriminator # "CounterV1Account"
              THEN Return("DeactivateCounterV1", Failed("DeserializeError", accounts))
              ELSE IF counter_state.owner # key(owner)
              THEN Return("DeactivateCounterV1", Failed("OwnerMismatch", accounts))
              ELSE Continue("DeactivateCounterV1",
                            [accounts EXCEPT ![counter.key].data[1] =
                                 AccountDiscriminator_to_u8("DeactivatedAccount")],
                            "DeactivateCounterV1_resize")

\* DeactivateCounterV1::execute, the account is shrunk
DeactivateCounterV1_resize ==
    /\ pc = "DeactivateCounterV1_resize"
    /\ LET counter == ix.accounts[2]
           r == resize(accounts, counter, DEACTIVATED_ACCOUNT_SIZE, Len(pre[counter.key].data))
       IN IF r.err # "Ok" THEN Return("DeactivateCounterV1", FromProgramError(r))
          ELSE Continue("DeactivateCounterV1", r.accounts, "DeactivateCounterV1_lamports")
    /\ UNCHANGED <<ix, pre, initializations>>

\* a Deactivate that leaves every lamport in the counter
DeactivateCounterV1_lamports_without_refund ==
    /\ pc = "DeactivateCounterV1_lamports"
    /\ Return("DeactivateCounterV1", Done(accounts))
    /\ UNCHANGED <<ix, pre, initializations>>

\* DeactivateCounterV1::execute, the excess lamports go to the owner
DeactivateCounterV1_lamports ==
    /\ pc = "DeactivateCounterV1_lamports"
    /\ LET owner == ix.accounts[1]
           counter == ix.accounts[2]
           rent_exempt_minimum == minimum_balance(DEACTIVATED_ACCOUNT_SIZE)
           total_lamports == accounts[counter.key].lamports
           lamports_to_transfer == saturating_sub(total_lamports, rent_exempt_minimum)
       IN Return("DeactivateCounterV1",
                 Done([accounts EXCEPT ![counter.key].lamports = @ - lamports_to_transfer,
                                       ![owner.key].lamports = @ + lamports_to_transfer]))
    /\ UNCHANGED <<ix, pre, initializations>>

\* IncrementCountV1
IncrementCountV1 ==
    /\ pc = "idle"
    /\ \E i \in Inputs :
        /\ Enter(i, "IncrementCountV1")
        /\ LET v == IncrementCountV1Accounts_try_from(ProgramKey(i.program), i.accounts, accounts)
               x == IncrementCountV1_execute(accounts, i.accounts)
           IN IF v.err # "Ok" THEN Return("IncrementCountV1", Rejected(v, accounts))
              ELSE /\ x.err = "Ok" => CountInWindow(CountOf(x.accounts, i.accounts[2].key))
                   /\ Return("IncrementCountV1", x)

\* DecrementCountV1
DecrementCountV1 ==
    /\ pc = "idle"
    /\ \E i \in Inputs :
        /\ Enter(i, "DecrementCountV1")
        /\ LET v == DecrementCountV1Accounts_try_from(ProgramKey(i.program), i.accounts, accounts)
               x == DecrementCountV1_execute(accounts, i.accounts)
           IN IF v.err # "Ok" THEN Return("DecrementCountV1", Rejected(v, accounts))
              ELSE /\ x.err = "Ok" => CountInWindow(CountOf(x.accounts, i.accounts[2].key))
                   /\ Return("DecrementCountV1", x)

\* SetCountV1
SetCountV1 ==
    /\ pc = "idle"
    /\ \E i \in Inputs :
        /\ Enter(i, "SetCountV1")
        /\ LET v == SetCountV1_try_from(ProgramKey(i.program), i.accounts, Parse(i).args, accounts)
           IN IF v.err # "Ok" THEN Return("SetCountV1", Rejected(v, accounts))
              ELSE Return("SetCountV1", SetCountV1_execute(accounts, i.accounts, Parse(i).args))

\* ReactivateCounterV1: validation and funding
ReactivateCounterV1 ==
    /\ pc = "idle"
    /\ \E i \in Inputs :
        /\ Enter(i, "ReactivateCounterV1")
        /\ LET v == ReactivateCounterV1Accounts_try_from(ProgramKey(i.program), i.accounts, accounts)
               payer == i.accounts[1]
               counter == i.accounts[2]
               rent_exempt_minimum_counter == minimum_balance(CounterV1_size)
               current_lamports == accounts[counter.key].lamports
               additional_lamports_needed ==
                   saturating_sub(rent_exempt_minimum_counter, current_lamports)
               t == IF additional_lamports_needed > 0
                    THEN Transfer_invoke(accounts, payer, counter, additional_lamports_needed)
                    ELSE Done(accounts)
           IN IF v.err # "Ok" THEN Return("ReactivateCounterV1", Rejected(v, accounts))
              ELSE IF t.err # "Ok" THEN Return("ReactivateCounterV1", FromProgramError(t))
              ELSE Continue("ReactivateCounterV1", t.accounts, "ReactivateCounterV1_resize")

\* ReactivateCounterV1::execute, the account is grown
ReactivateCounterV1_resize ==
    /\ pc = "ReactivateCounterV1_resize"
    /\ LET counter == ix.accounts[2]
           r == resize(accounts, counter, CounterV1_size, Len(pre[counter.key].data))
       IN IF r.err # "Ok" THEN Return("ReactivateCounterV1", FromProgramError(r))
          ELSE Continue("ReactivateCounterV1", r.accounts, "ReactivateCounterV1_write")
    /\ UNCHANGED <<ix, pre, initializations>>

\* a Reactivate that restores the discriminator and leaves the rest of the
\* grown buffer as the resize left it
ReactivateCounterV1_write_discriminator_only ==
    /\ pc = "ReactivateCounterV1_write"
    /\ LET counter == ix.accounts[2]
       IN Return("ReactivateCounterV1",
                 Done([accounts EXCEPT ![counter.key].data[1] =
                          AccountDiscriminator_to_u8("CounterV1Account")]))
    /\ UNCHANGED <<ix, pre, initializations>>

\* ReactivateCounterV1::execute, the fresh record is written
ReactivateCounterV1_write ==
    /\ pc = "ReactivateCounterV1_write"
    /\ LET payer == ix.accounts[1]
           counter == ix.accounts[2]
           state == [discriminator |-> "CounterV1Account",
                     owner |-> key(payer),
                     bump |-> find_counter_v1(ProgramKey(ix.program), key(payer)).bump,
                     count |-> U64Zero,
                     reserved |-> Repeat(0, 31)]
           serialized == CounterV1_serialize(state)
       IN IF Len(serialized) # CounterV1_size
          THEN Return("ReactivateCounterV1", Failed("SerializedSizeMismatch", accounts))
          ELSE Return("ReactivateCounterV1",
                      Done([accounts EXCEPT ![counter.key].data = serialized]))
    /\ UNCHANGED <<ix, pre, initializations>>

----------------------------------------------------------------------------
(* Vault program *)

VaultExtra(acc, k) == acc[k].lamports - minimum_balance(VaultV1_size)

\* the balance above the rent-exempt minimum up to which deposits into vault
\* k are explored
VaultCap(k) == IF OwnerOf(k) = "W1" THEN MaxVaultExtra ELSE MaxVaultExtra - 1

\* InitializeVaultV1: validation and account creation
InitializeVaultV1 ==
    /\ pc = "idle"
    /\ \E i \in Inputs :
        /\ Enter(i, "InitializeVaultV1")
        /\ LET v == InitializeVaultV1Accounts_try_from(ProgramKey(i.program), i.accounts, accounts)
           IN IF v.err # "Ok" THEN Return("InitializeVaultV1", Rejected(v, accounts))
              ELSE LET c == create_account_with_minimum_balance_signed(
                                accounts, i.accounts[2], VaultV1_size, i.program,
                                i.accounts[1], VAULT_V1_SEED, v.bump, i.program)
                   IN IF c.err # "Ok" THEN Return("InitializeVaultV1", FromProgramError(c))
                      ELSE Continue("InitializeVaultV1", c.accounts, "InitializeVaultV1_write")

\* an Initialize that stores the address of the vault in the owner field
InitializeVaultV1_write_owner_from_vault ==
    /\ pc = "InitializeVaultV1_write"
    /\ LET payer == ix.accounts[1]
           vault == ix.accounts[2]
           state == [discriminator |-> "VaultV1Account",
                     owner |-> key(vault),
                     bump |-> find_vault_v1(ProgramKey(ix.program), key(payer)).bump]
           serialized == VaultV1_to_bytes(state)
       IN /\ Return("InitializeVaultV1",
                    Done([accounts EXCEPT ![vault.key].data = serialized]))
          /\ initializations' = [initializations EXCEPT ![vault.key] = @ + 1]
    /\ UNCHANGED <<ix, pre>>

\* InitializeVaultV1::execute, the record is encoded and written
InitializeVaultV1_write ==
    /\ pc = "InitializeVaultV1_write"
    /\ LET payer == ix.accounts[1]
           vault == ix.accounts[2]
           state == [discriminator |-> "VaultV1Account",
                     owner |-> key(payer),
                     bump |-> find_vault_v1(ProgramKey(ix.program), key(payer)).bump]
           serialized == VaultV1_to_bytes(state)
       IN IF Len(serialized) # VaultV1_size
          THEN /\ Return("InitializeVaultV1", Failed("SerializedSizeMismatch", accounts))
               /\ UNCHANGED initializations
          ELSE /\ Return("InitializeVaultV1",
                         Done([accounts EXCEPT ![vault.key].data = serialized]))
               /\ initializations' = [initializations EXCEPT ![vault.key] = @ + 1]
    /\ UNCHANGED <<ix, pre>>

\* a Deposit that runs execute before it looks at the result of the validation
DepositV1_execute_before_validation ==
    /\ pc = "idle"
    /\ \E i \in Inputs :
        /\ Enter(i, "DepositV1")
        /\ LET v == DepositV1_try_from(ProgramKey(i.program), i.accounts, Parse(i).args, accounts)
               t == IF Len(i.accounts) >= 2 /\ Len(Parse(i).args) >= 8
                    THEN Transfer_invoke(accounts, i.accounts[1], i.accounts[2],
                                         DepositV1Args_parse(Parse(i).args).amount)
                    ELSE Done(accounts)
           IN /\ VaultExtra(t.accounts, VaultOf("W1")) <= VaultCap(VaultOf("W1"))
              /\ VaultExtra(t.accounts, VaultOf("W2")) <= VaultCap(VaultOf("W2"))
              /\ IF v.err # "Ok" THEN Return("DepositV1", Rejected(v, t.accounts))
                 ELSE Return("DepositV1", t)

\* DepositV1
DepositV1 ==
    /\ pc = "idle"
    /\ \E i \in Inputs :
        /\ Enter(i, "DepositV1")
        /\ LET v == DepositV1_try_from(ProgramKey(i.program), i.accounts, Parse(i).args, accounts)
               x == DepositV1_execute(accounts, i.accounts, Parse(i).args)
           IN IF v.err # "Ok" THEN Return("DepositV1", Rejected(v, accounts))
              ELSE /\ x.err = "Ok" => VaultExtra(x.accounts, i.accounts[2].key) <=
                                           VaultCap(i.accounts[2].key)
                   /\ Return("DepositV1", x)

\* WithdrawV1
WithdrawV1 ==
    /\ pc = "idle"
    /\ \E i \in Inputs :
        /\ Enter(i, "WithdrawV1")
        /\ LET v == WithdrawV1_try_from(ProgramKey(i.program), i.accounts, Parse(i).args, accounts)
           IN IF v.err # "Ok" THEN Return("WithdrawV1", Rejected(v, accounts))
              ELSE Return("WithdrawV1", WithdrawV1_execute(accounts, i.accounts, Parse(i).args))

\* DeactivateVaultV1: validation, the discriminator is rewritten
DeactivateVaultV1 ==
    /\ pc = "idle"
    /\ \E i \in Inputs :
        /\ Enter(i, "DeactivateVaultV1")
        /\ LET v == DeactivateVaultV1Accounts_try_from(ProgramKey(i.program), i.accounts, accounts)
               vault == i.accounts[2]
           IN IF v.err # "Ok" THEN Return("DeactivateVaultV1", Rejected(v, accounts))
              ELSE Continue("DeactivateVaultV1",
                            [accounts EXCEPT ![vault.key].data[1] =
                                 AccountDiscriminator_to_u8("DeactivatedAccount")],
                            "DeactivateVaultV1_resize")

\* a Deactivate that closes the account: no byte of data is kept
DeactivateVaultV1_resize_to_empty ==
    /\ pc = "DeactivateVaultV1_resize"
    /\ LET vault == ix.accounts[2]
           r == resize(accounts, vault, 0, Len(pre[vault.key].data))
       IN IF r.err # "Ok" THEN Return("DeactivateVaultV1", FromProgramError(r))
          ELSE Continue("DeactivateVaultV1", r.accounts, "DeactivateVaultV1_lamports")
    /\ UNCHANGED <<ix, pre, initializations>>

\* DeactivateVaultV1::execute, the account is shrunk
DeactivateVaultV1_resize ==
    /\ pc = "DeactivateVaultV1_resize"
    /\ LET vault == ix.accounts[2]
           r == resize(accounts, vault, DEACTIVATED_ACCOUNT_SIZE, Len(pre[vault.key].data))
       IN IF r.err # "Ok" THEN Return("DeactivateVaultV1", FromProgramError(r))
          ELSE Continue("DeactivateVaultV1", r.accounts, "DeactivateVaultV1_lamports")
    /\ UNCHANGED <<ix, pre, initializations>>

\* a Deactivate that leaves the vault the rent-exempt minimum of the full
\* record instead of that of the 1 byte it keeps
DeactivateVaultV1_lamports_keeps_record_minimum ==
    /\ pc = "DeactivateVaultV1_lamports"
    /\ LET owner == ix.accounts[1]
           vault == ix.accounts[2]
           rent_exempt_minimum == minimum_balance(VaultV1_size)
           total_lamports == accounts[vault.key].lamports
           lamports_to_transfer == saturating_sub(total_lamports, rent_exempt_minimum)
       IN Return("DeactivateVaultV1",
                 Done([accounts EXCEPT ![vault.key].lamports = @ - lamports_to_transfer,
                                       ![owner.key].lamports = @ + lamports_to_transfer]))
    /\ UNCHANGED <<ix, pre, initializations>>

\* DeactivateVaultV1::execute, the excess lamports go to the owner
DeactivateVaultV1_lamports ==
    /\ pc = "DeactivateVaultV1_lamports"
    /\ LET owner == ix.accounts[1]
           vault == ix.accounts[2]
           rent_exempt_minimum == minimum_balance(DEACTIVATED_ACCOUNT_SIZE)
           total_lamports == accounts[vault.key].lamports
           lamports_to_transfer == saturating_sub(total_lamports, rent_exempt_minimum)
       IN Return("DeactivateVaultV1",
                 Done([accounts EXCEPT ![vault.key].lamports = @ - lamports_to_transfer,
                                       ![owner.key].lamports = @ + lamports_to_transfer]))
    /\ UNCHANGED <<ix, pre, initializations>>

\* a Reactivate that pays in the difference between the two rent-exempt
\* minimums whatever the account already holds
ReactivateVaultV1_without_shortfall ==
    /\ pc = "idle"
    /\ \E i \in Inputs :
        /\ Enter(i, "ReactivateVaultV1")
        /\ LET v == ReactivateVaultV1Accounts_try_from(ProgramKey(i.program), i.accounts, accounts)
               payer == i.accounts[1]
               vault == i.accounts[2]
               t == Transfer_invoke(accounts, payer, vault,
                        minimum_balance(VaultV1_size) - minimum_balance(DEACTIVATED_ACCOUNT_SIZE))
           IN IF v.err # "Ok" THEN Return("ReactivateVaultV1", Rejected(v, accounts))
              ELSE IF t.err # "Ok" THEN Return("ReactivateVaultV1", FromProgramError(t))
              ELSE Continue("ReactivateVaultV1", t.accounts, "ReactivateVaultV1_resize")

\* ReactivateVaultV1: validation and funding
ReactivateVaultV1 ==
    /\ pc = "idle"
    /\ \E i \in Inputs :
        /\ Enter(i, "ReactivateVaultV1")
        /\ LET v == ReactivateVaultV1Accounts_try_from(ProgramKey(i.program), i.accounts, accounts)
               payer == i.accounts[1]
               vault == i.accounts[2]
               rent_exempt_minimum_vault == minimum_balance(VaultV1_size)
               current_lamports == accounts[vault.key].lamports
               additional_lamports_needed ==
                   saturating_sub(rent_exempt_minimum_vault, current_lamports)
               t == IF additional_lamports_needed > 0
                    THEN Transfer_invoke(accounts, payer, vault, additional_lamports_needed)
                    ELSE Done(accounts)
           IN IF v.err # "Ok" THEN Return("ReactivateVaultV1", Rejected(v, accounts))
              ELSE IF t.err # "Ok" THEN Return("ReactivateVaultV1", FromProgramError(t))
              ELSE Continue("ReactivateVaultV1", t.accounts, "ReactivateVaultV1_resize")

\* ReactivateVaultV1::execute, the account is grown
ReactivateVaultV1_resize ==
    /\ pc = "ReactivateVaultV1_resize"
    /\ LET vault == ix.accounts[2]
           r == resize(accounts, vault, VaultV1_size, Len(pre[vault.key].data))
       IN IF r.err # "Ok" THEN Return("ReactivateVaultV1", FromProgramError(r))
          ELSE Continue("ReactivateVaultV1", r.accounts, "ReactivateVaultV1_write")
    /\ UNCHANGED <<ix, pre, initializations>>

\* ReactivateVaultV1::execute, the fresh record is written
ReactivateVaultV1_write ==
    /\ pc = "ReactivateVaultV1_write"
    /\ LET payer == ix.accounts[1]
           vault == ix.accounts[2]
           state == [discriminator |-> "VaultV1Account",
                     owner |-> key(payer),
                     bump |-> find_vault_v1(ProgramKey(ix.program), key(payer)).bump]
           serialized == VaultV1_to_bytes(state)
       IN IF Len(serialized) # VaultV1_size
          THEN Return("ReactivateVaultV1", Failed("SerializedSizeMismatch", accounts))
          ELSE Return("ReactivateVaultV1",
                      Done([accounts EXCEPT ![vault.key].data = serialized]))
    /\ UNCHANGED <<ix, pre, initializations>>

\* process_instruction: the instruction data names no operation
RejectInstructionData ==
    /\ pc = "idle"
    /\ \E i \in Inputs :
        /\ Parse(i).err # "Ok"
        /\ ix' = i
        /\ pre' = accounts
        /\ UNCHANGED initializations
        /\ Return("None", [err |-> "ProgramError",
                           detail |-> InstructionDiscriminatorError_into(Parse(i)),
                           accounts |-> accounts])

----------------------------------------------------------------------------
(* The ledger the programs run on *)

\* W1 can pay for everything it may create; W2 is one lamport short of
\* keeping a counter and a vault active together
InitialLamports(w) ==
    IF w = "W1"
    THEN 2 * (minimum_balance(CounterV1_size) + minimum_balance(VaultV1_size))
    ELSE minimum_balance(CounterV1_size) + minimum_balance(VaultV1_size) - 1

Init ==
    /\ accounts = [n \in Names |->
                     [lamports |-> IF n \in Wallets THEN InitialLamports(n)
                                   ELSE IF n = "Sys" THEN 1 ELSE 0,
                      data |-> <<>>,
                      owner |-> "Sys"]]
    /\ pc = "idle"
    /\ ix = NoInstruction
    /\ result = NoResult
    /\ pre = accounts
    /\ initializations = [s \in Storage |-> 0]
    /\ history = NoHistory
    /\ call = NoCall

\* the test context's airdrop_lamports: lamports arrive at a storage address
\* of W1 that holds no data, without any instruction of the two programs
airdrop_lamports ==
    /\ pc = "idle"
    /\ \E s \in {CounterOf("W1"), VaultOf("W1")} :
        /\ accounts[s].data = <<>>
        /\ accounts[s].lamports < MaxAirdrop
        /\ accounts' = [accounts EXCEPT ![s].lamports = @ + 1]
        /\ pre' = accounts'
    /\ UNCHANGED <<pc, ix, result, initializations, history, call>>

\* the ledger after the result on record has been delivered: a successful
\* Deposit or Withdraw adds to or takes from what the vault's owner has put
\* in since the vault became Active; a successful Deactivate of a counter
\* notes whether the record it discarded held a count other than 0, until
\* the counter is reactivated
Recorded ==
    IF result.err # "Ok" THEN history
    ELSE IF result.op = "DepositV1"
    THEN [history EXCEPT !.deposited[ix.accounts[2].key] =
              @ + DepositV1Args_parse(Parse(ix).args).amount]
    ELSE IF result.op = "WithdrawV1"
    THEN [history EXCEPT !.deposited[ix.accounts[2].key] =
              @ - WithdrawV1Args_parse(Parse(ix).args).amount]
    ELSE IF result.op \in {"InitializeVaultV1", "DeactivateVaultV1", "ReactivateVaultV1"}
    THEN [history EXCEPT !.deposited[ix.accounts[2].key] = 0]
    ELSE IF result.op = "DeactivateCounterV1"
    THEN [history EXCEPT !.dropped_count[ix.accounts[2].key] =
              CountOf(pre, ix.accounts[2].key) # U64Zero]
    ELSE IF result.op = "ReactivateCounterV1"
    THEN [history EXCEPT !.dropped_count[ix.accounts[2].key] = FALSE]
    ELSE history

\* the runtime hands the result to the client and is ready for the next
\* instruction
Finish ==
    /\ pc = "returned"
    /\ pc' = "idle"
    /\ ix' = NoInstruction
    /\ result' = NoResult
    /\ pre' = accounts
    /\ history' = Recorded
    /\ UNCHANGED <<accounts, initializations, call>>

Next ==
    \/ InitializeCounterV1
    \/ InitializeCounterV1_write
    \/ DeactivateCounterV1
    \/ DeactivateCounterV1_resize
    \/ DeactivateCounterV1_lamports
    \/ IncrementCountV1
    \/ DecrementCountV1
    \/ SetCountV1
    \/ ReactivateCounterV1
    \/ ReactivateCounterV1_resize
    \/ ReactivateCounterV1_write
    \/ InitializeVaultV1
    \/ InitializeVaultV1_write
    \/ DepositV1
    \/ WithdrawV1
    \/ DeactivateVaultV1
    \/ DeactivateVaultV1_resize
    \/ DeactivateVaultV1_lamports
    \/ ReactivateVaultV1
    \/ ReactivateVaultV1_resize
    \/ ReactivateVaultV1_write
    \/ RejectInstructionData
    \/ Finish
    \/ airdrop_lamports

Spec == Init /\ [][Next]_vars

\* the balances a deactivated account of full record size `size` may hold:
\* what Deactivate left it, or, after lamports arrived from elsewhere, an
\* amount around the rent-exempt minimum of the full record
ReactivateLamports(size) ==
    {minimum_balance(DEACTIVATED_ACCOUNT_SIZE)} \cup
        ((minimum_balance(size) - MaxSurplus) .. (minimum_balance(size) + MaxSurplus))

\* every counter and vault has been initialized and deactivated by its
\* owner; lamports have since arrived at the two storage accounts of W1
Init_Reactivate ==
    /\ \E c \in ReactivateLamports(CounterV1_size), v \in ReactivateLamports(VaultV1_size) :
          accounts = [n \in Names |->
              IF n \in Wallets
              THEN [lamports |-> InitialLamports(n) - 2 * minimum_balance(DEACTIVATED_ACCOUNT_SIZE),
                    data |-> <<>>, owner |-> "Sys"]
              ELSE IF n = "Sys" THEN [lamports |-> 1, data |-> <<>>, owner |-> "Sys"]
              ELSE [lamports |-> IF OwnerOf(n) # "W1"
                                 THEN minimum_balance(DEACTIVATED_ACCOUNT_SIZE)
                                 ELSE IF n \in CounterStorage THEN c ELSE v,
                    data |-> <<AccountDiscriminator_to_u8("DeactivatedAccount")>>,
                    owner |-> ProgramOf(n)]]
    /\ pc = "idle"
    /\ ix = NoInstruction
    /\ result = NoResult
    /\ pre = accounts
    /\ initializations = [s \in Storage |-> 1]
    /\ history = NoHistory
    /\ call = NoCall

Next_Reactivate ==
    \/ ReactivateCounterV1
    \/ ReactivateCounterV1_resize
    \/ ReactivateCounterV1_write
    \/ ReactivateVaultV1
    \/ ReactivateVaultV1_resize
    \/ ReactivateVaultV1_write
    \/ Finish

ReactivateSpec == Init_Reactivate /\ [][Next_Reactivate]_vars

\* the three implementations of the discriminator guard and the kinds each
\* can be asked to expect
GuardKinds(f) ==
    IF f = "pinocchio_sol_vault_program::account_discriminator"
    THEN {"VaultV1Account", "DeactivatedAccount"}
    ELSE {"CounterV1Account", "DeactivatedAccount"}

GuardImplementations ==
    {"pinocchio_counter_program::account_discriminator",
     "pinocchio_counter_program::state",
     "pinocchio_sol_vault_program::account_discriminator"}

\* lengths within MaxPad of the size of a deactivated account, a vault
\* record and a counter record
GuardLengths ==
    {n \in 1..(CounterV1_size + MaxPad) :
        \E size \in {DEACTIVATED_ACCOUNT_SIZE, VaultV1_size, CounterV1_size} :
            n \in (size - MaxPad)..(size + MaxPad)}

\* the empty buffer, and every leading byte at every one of these lengths
GuardBuffers ==
    {<<>>} \cup {<<b>> \o Repeat(0, n - 1) : b \in Byte, n \in GuardLengths}

\* a guard is about to be called on some buffer, expecting some kind
Init_Guard ==
    /\ accounts = [n \in Names |->
                     [lamports |-> IF n \in Wallets THEN InitialLamports(n)
                                   ELSE IF n = "Sys" THEN 1 ELSE 0,
                      data |-> <<>>,
                      owner |-> "Sys"]]
    /\ pc = "idle"
    /\ ix = NoInstruction
    /\ result = NoResult
    /\ pre = accounts
    /\ initializations = [s \in Storage |-> 0]
    /\ history = NoHistory
    /\ call \in {[f |-> f, expected |-> k, data |-> b, value |-> "None"] :
                    f \in GuardImplementations, k \in {"CounterV1Account", "VaultV1Account",
                                                        "DeactivatedAccount"}, b \in GuardBuffers}
    /\ call.expected \in GuardKinds(call.f)

\* AccountDiscriminator::check of the counter program is applied
CounterAccountDiscriminator_check_call ==
    /\ call.f = "pinocchio_counter_program::account_discriminator"
    /\ call.value = "None"
    /\ call' = [call EXCEPT !.value = CounterAccountDiscriminator_check(call.expected, call.data)]
    /\ UNCHANGED <<accounts, pc, ix, result, pre, initializations, history>>

\* AccountDiscriminator::check of the counter program's state module is
\* applied
StateAccountDiscriminator_check_call ==
    /\ call.f = "pinocchio_counter_program::state"
    /\ call.value = "None"
    /\ call' = [call EXCEPT !.value = StateAccountDiscriminator_check(call.expected, call.data)]
    /\ UNCHANGED <<accounts, pc, ix, result, pre, initializations, history>>

\* AccountDiscriminator::check of the vault program is applied
VaultAccountDiscriminator_check_call ==
    /\ call.f = "pinocchio_sol_vault_program::account_discriminator"
    /\ call.value = "None"
    /\ call' = [call EXCEPT !.value = VaultAccountDiscriminator_check(call.expected, call.data)]
    /\ UNCHANGED <<accounts, pc, ix, result, pre, initializations, history>>

Next_Guard ==
    \/ CounterAccountDiscriminator_check_call
    \/ StateAccountDiscriminator_check_call
    \/ VaultAccountDiscriminator_check_call

GuardSpec == Init_Guard /\ [][Next_Guard]_vars

\* counts on both sides of every carry and borrow: the seven high digits are
\* each 0 or 255, the low digit is 0, 1, 254 or 255
CountSamples == {hi \o <<lo>> : hi \in [1..7 -> {0, 255}], lo \in {0, 1, 254, 255}}

\* the account list of a well-formed Increment or Decrement signed by W1
CountAccounts == AccountList("CounterProgram", "W1", {}, 2)

\* W1 holds an Active counter with some count, and execute of Increment or
\* of Decrement is about to run on it
Init_Count ==
    /\ \E c \in CountSamples :
          accounts = [n \in Names |->
              IF n = "C1"
              THEN [lamports |-> minimum_balance(CounterV1_size),
                    data |-> CounterV1_serialize(
                                 [discriminator |-> "CounterV1Account",
                                  owner |-> WalletKey("W1"),
                                  bump |-> find_counter_v1(ProgramKey("CounterProgram"),
                                                           WalletKey("W1")).bump,
                                  count |-> c,
                                  reserved |-> Repeat(0, 31)]),
                    owner |-> "CounterProgram"]
              ELSE [lamports |-> IF n = "W1"
                                 THEN InitialLamports(n) - minimum_balance(CounterV1_size)
                                 ELSE IF n = "W2" THEN InitialLamports(n)
                                 ELSE IF n = "Sys" THEN 1 ELSE 0,
                    data |-> <<>>,
                    owner |-> "Sys"]]
    /\ pc = "idle"
    /\ ix = NoInstruction
    /\ result = NoResult
    /\ pre = accounts
    /\ initializations = [s \in Storage |-> IF s = "C1" THEN 1 ELSE 0]
    /\ history = NoHistory
    /\ call \in {[f |-> f, value |-> "None"] :
                    f \in {"IncrementCountV1::execute", "DecrementCountV1::execute"}}

\* IncrementCountV1::execute is applied
IncrementCountV1_execute_call ==
    /\ call.f = "IncrementCountV1::execute"
    /\ call.value = "None"
    /\ LET x == IncrementCountV1_execute(accounts, CountAccounts)
       IN /\ accounts' = x.accounts
          /\ call' = [call EXCEPT !.value = x.err]
    /\ UNCHANGED <<pc, ix, result, pre, initializations, history>>

\* DecrementCountV1::execute is applied
DecrementCountV1_execute_call ==
    /\ call.f = "DecrementCountV1::execute"
    /\ call.value = "None"
    /\ LET x == DecrementCountV1_execute(accounts, CountAccounts)
       IN /\ accounts' = x.accounts
          /\ call' = [call EXCEPT !.value = x.err]
    /\ UNCHANGED <<pc, ix, result, pre, initializations, history>>

Next_Count ==
    \/ IncrementCountV1_execute_call
    \/ DecrementCountV1_execute_call

CountSpec == Init_Count /\ [][Next_Count]_vars

\* the steps of the end-to-end scenario of the counter, and the value its
\* SetCount carries
ScenarioSteps ==
    <<"InitializeCounterV1", "IncrementCountV1", "IncrementCountV1", "IncrementCountV1",
      "SetCountV1", "DeactivateCounterV1", "ReactivateCounterV1">>

ScenarioValue == to_le_bytes(U64FromNat(42))

\* the well-formed instructions of the scenario, from either wallet
ScenarioInputs ==
    {Instruction("CounterProgram", <<d>>, AccountList("CounterProgram", w, {}, 3)) :
        d \in {1, 2, 6}, w \in Wallets}
    \cup {Instruction("CounterProgram", <<4>>, AccountList("CounterProgram", w, {}, 2)) :
             w \in Wallets}
    \cup {Instruction("CounterProgram", <<5>> \o v, AccountList("CounterProgram", w, {}, 2)) :
             v \in {to_le_bytes(U64Zero), ScenarioValue}, w \in Wallets}

\* the run has left the scenario: W1 has submitted something other than the
\* next step, or the next step has failed
ScenarioLeft == <<"Left">>

\* the steps of the scenario W1 has completed, after the result on record
Progress ==
    IF ix.accounts[1].key # "W1" THEN history.done
    ELSE IF /\ history.done # ScenarioLeft
            /\ Len(history.done) < Len(ScenarioSteps)
            /\ result.err = "Ok"
            /\ result.op = ScenarioSteps[Len(history.done) + 1]
            /\ (result.op = "SetCountV1" => Parse(ix).args = ScenarioValue)
    THEN Append(history.done, result.op)
    ELSE ScenarioLeft

\* the test context before the scenario: funded wallets, no storage account,
\* no step done
Init_Scenario ==
    /\ accounts = [n \in Names |->
                     [lamports |-> IF n \in Wallets THEN InitialLamports(n)
                                   ELSE IF n = "Sys" THEN 1 ELSE 0,
                      data |-> <<>>,
                      owner |-> "Sys"]]
    /\ pc = "idle"
    /\ ix = NoInstruction
    /\ result = NoResult
    /\ pre = accounts
    /\ initializations = [s \in Storage |-> 0]
    /\ history = [deposited |-> NoHistory.deposited,
                  dropped_count |-> NoHistory.dropped_count,
                  done |-> <<>>]
    /\ call = NoCall

Scenario_InitializeCounterV1 == InitializeCounterV1 /\ ix' \in ScenarioInputs

\* IncrementCountV1, explored up to MaxScenarioCount
Scenario_IncrementCountV1 ==
    /\ pc = "idle"
    /\ \E i \in ScenarioInputs :
        /\ Enter(i, "IncrementCountV1")
        /\ LET v == IncrementCountV1Accounts_try_from(ProgramKey(i.program), i.accounts, accounts)
               x == IncrementCountV1_execute(accounts, i.accounts)
           IN IF v.err # "Ok" THEN Return("IncrementCountV1", Rejected(v, accounts))
              ELSE /\ x.err = "Ok" =>
                          \E k \in 0..MaxScenarioCount :
                              CountOf(x.accounts, i.accounts[2].key) = U64FromNat(k)
                   /\ Return("IncrementCountV1", x)

Scenario_SetCountV1 == SetCountV1 /\ ix' \in ScenarioInputs

Scenario_DeactivateCounterV1 == DeactivateCounterV1 /\ ix' \in ScenarioInputs

Scenario_ReactivateCounterV1 == ReactivateCounterV1 /\ ix' \in ScenarioInputs

\* the result is delivered and the step is counted
Finish_Scenario ==
    /\ pc = "returned"
    /\ pc' = "idle"
    /\ ix' = NoInstruction
    /\ result' = NoResult
    /\ pre' = accounts
    /\ history' = [Recorded EXCEPT !.done = Progress]
    /\ UNCHANGED <<accounts, initializations, call>>

Next_Scenario ==
    \/ Scenario_InitializeCounterV1
    \/ InitializeCounterV1_write
    \/ Scenario_IncrementCountV1
    \/ Scenario_SetCountV1
    \/ Scenario_DeactivateCounterV1
    \/ DeactivateCounterV1_resize
    \/ DeactivateCounterV1_lamports
    \/ Scenario_ReactivateCounterV1
    \/ ReactivateCounterV1_resize
    \/ ReactivateCounterV1_write
    \/ Finish_Scenario

ScenarioSpec == Init_Scenario /\ [][Next_Scenario]_vars

\* instruction data: empty, or any first byte followed by a short payload
ParseData ==
    {<<>>} \cup {<<b>> \o r : b \in Byte,
                               r \in UNION {[1..n -> {0, 255}] : n \in 0..MaxPayload}}

ParseFunctions ==
    {"pinocchio_counter_program::InstructionDiscriminator::parse",
     "pinocchio_sol_vault_program::InstructionDiscriminator::parse"}

\* process_instruction of one of the programs is entered with some instruction
\* data and is about to parse it
Init_Parse ==
    /\ accounts = [n \in Names |->
                     [lamports |-> IF n \in Wallets THEN InitialLamports(n)
                                   ELSE IF n = "Sys" THEN 1 ELSE 0,
                      data |-> <<>>,
                      owner |-> "Sys"]]
    /\ pc = "idle"
    /\ ix = NoInstruction
    /\ result = NoResult
    /\ pre = accounts
    /\ initializations = [s \in Storage |-> 0]
    /\ history = NoHistory
    /\ call \in {[f |-> f, data |-> d, value |-> [err |-> "None"]] :
                    f \in ParseFunctions, d \in ParseData}

\* InstructionDiscriminator::parse of the counter program is applied
CounterInstructionDiscriminator_parse_call ==
    /\ call.f = "pinocchio_counter_program::InstructionDiscriminator::parse"
    /\ call.value.err = "None"
    /\ call' = [call EXCEPT !.value = CounterInstructionDiscriminator_parse(call.data)]
    /\ UNCHANGED <<accounts, pc, ix, result, pre, initializations, history>>

\* InstructionDiscriminator::parse of the vault program is applied
VaultInstructionDiscriminator_parse_call ==
    /\ call.f = "pinocchio_sol_vault_program::InstructionDiscriminator::parse"
    /\ call.value.err = "None"
    /\ call' = [call EXCEPT !.value = VaultInstructionDiscriminator_parse(call.data)]
    /\ UNCHANGED <<accounts, pc, ix, result, pre, initializations, history>>

\* process_instruction: map_err(handle_instruction_discriminator_error)?
\* returns the error of parse as a program error
handle_instruction_discriminator_error ==
    /\ pc = "idle"
    /\ call.value.err \in {"Missing", "Invalid"}
    /\ accounts' = accounts
    /\ result' = Outcome("None", "ProgramError", InstructionDiscriminatorError_into(call.value))
    /\ pc' = "returned"
    /\ UNCHANGED <<ix, pre, initializations, history, call>>

Next_Parse ==
    \/ CounterInstructionDiscriminator_parse_call
    \/ VaultInstructionDiscriminator_parse_call
    \/ handle_instruction_discriminator_error

ParseSpec == Init_Parse /\ [][Next_Parse]_vars

\* the platform errors an operation passes on: a failed decode of a vault, a
\* refused resize, and the errors of the system program
PlatformErrors ==
    {ProgramError_Builtin("InvalidAccountData"), ProgramError_Builtin("InvalidArgument"),
     ProgramError_Builtin("InvalidRealloc"), ProgramError_Custom(0), ProgramError_Custom(1)}

\* the local codes of the program that handles the error
LocalCodes(program) ==
    IF program = "CounterProgram" THEN CounterLocalCodes ELSE VaultLocalCodes

\* the errors an operation can end with: its own variants and the platform
\* errors it passes on
OperationErrors(program, op) ==
    {[variant |-> v] : v \in DOMAIN LocalCodes(program)[op]}
    \cup {[variant |-> "ProgramError", pe |-> p] : p \in PlatformErrors}

\* an operation of one of the programs has failed and process_instruction is
\* about to hand the error to handle_instruction_error
Init_Code ==
    /\ accounts = [n \in Names |->
                     [lamports |-> IF n \in Wallets THEN InitialLamports(n)
                                   ELSE IF n = "Sys" THEN 1 ELSE 0,
                      data |-> <<>>,
                      owner |-> "Sys"]]
    /\ pc = "idle"
    /\ ix = NoInstruction
    /\ result = NoResult
    /\ pre = accounts
    /\ initializations = [s \in Storage |-> 0]
    /\ history = NoHistory
    /\ \E program \in Programs :
        \E op \in DOMAIN LocalCodes(program) :
        \E e \in OperationErrors(program, op) :
            call = [f |-> "handle_instruction_error", program |-> program, op |-> op,
                    error |-> e, returned |-> FALSE, value |-> ProgramError_Custom(0)]

\* handle_instruction_error of the counter program: err.into() twice
Counter_handle_instruction_error ==
    /\ call.f = "handle_instruction_error"
    /\ call.program = "CounterProgram"
    /\ ~call.returned
    /\ call' = [call EXCEPT !.returned = TRUE,
                            !.value = CounterInstructionError_into(
                                          OperationError_into(call.op, call.error))]
    /\ UNCHANGED <<accounts, pc, ix, result, pre, initializations, history>>

\* handle_instruction_error of the vault program
Vault_handle_instruction_error ==
    /\ call.f = "handle_instruction_error"
    /\ call.program = "VaultProgram"
    /\ ~call.returned
    /\ call' = [call EXCEPT !.returned = TRUE,
                            !.value = VaultInstructionError_into(
                                          OperationError_into(call.op, call.error))]
    /\ UNCHANGED <<accounts, pc, ix, result, pre, initializations, history>>

Next_Code ==
    \/ Counter_handle_instruction_error
    \/ Vault_handle_instruction_error

CodeSpec == Init_Code /\ [][Next_Code]_vars

\* sample values of the fields of a record: keys, bumps, counts and reserved
\* bytes, uniform and not
KeySamples ==
    {WalletKey("W1"), WalletKey("W2"), Repeat(0, 32), Repeat(255, 32), [j \in 1..32 |-> j]}
BumpSamples == {0, 1, 254, 255}
CodecCounts == {U64Zero, U64Max, U64FromNat(1), U64FromNat(42), <<1, 2, 3, 4, 5, 6, 7, 8>>}
ReservedSamples == {Repeat(0, 31), Repeat(255, 31), [j \in 1..31 |-> j]}

\* the Counter records and the Vault records of the samples
CounterRecords ==
    [discriminator : {"CounterV1Account", "DeactivatedAccount"}, owner : KeySamples,
     bump : BumpSamples, count : CodecCounts, reserved : ReservedSamples]
VaultRecords ==
    [discriminator : {"VaultV1Account", "DeactivatedAccount"}, owner : KeySamples,
     bump : BumpSamples]

\* a record is about to be encoded and decoded again
Init_Codec ==
    /\ accounts = [n \in Names |->
                     [lamports |-> IF n \in Wallets THEN InitialLamports(n)
                                   ELSE IF n = "Sys" THEN 1 ELSE 0,
                      data |-> <<>>,
                      owner |-> "Sys"]]
    /\ pc = "idle"
    /\ ix = NoInstruction
    /\ result = NoResult
    /\ pre = accounts
    /\ initializations = [s \in Storage |-> 0]
    /\ history = NoHistory
    /\ \/ \E r \in CounterRecords :
             call = [f |-> "CounterV1", record |-> r, stage |-> "record", bytes |-> <<>>,
                     value |-> ReadError]
       \/ \E r \in VaultRecords :
             call = [f |-> "VaultV1", record |-> r, stage |-> "record", bytes |-> <<>>,
                     value |-> InvalidAccountData]

\* CounterV1::serialize is applied to the record
CounterV1_serialize_call ==
    /\ call.f = "CounterV1" /\ call.stage = "record"
    /\ call' = [call EXCEPT !.stage = "encoded", !.bytes = CounterV1_serialize(call.record)]
    /\ UNCHANGED <<accounts, pc, ix, result, pre, initializations, history>>

\* CounterV1::deserialize is applied to the bytes
CounterV1_deserialize_call ==
    /\ call.f = "CounterV1" /\ call.stage = "encoded"
    /\ call' = [call EXCEPT !.stage = "decoded", !.value = CounterV1_deserialize(call.bytes)]
    /\ UNCHANGED <<accounts, pc, ix, result, pre, initializations, history>>

\* VaultV1::to_bytes is applied to the record
VaultV1_to_bytes_call ==
    /\ call.f = "VaultV1" /\ call.stage = "record"
    /\ call' = [call EXCEPT !.stage = "encoded", !.bytes = VaultV1_to_bytes(call.record)]
    /\ UNCHANGED <<accounts, pc, ix, result, pre, initializations, history>>

\* VaultV1::from_bytes is applied to the bytes
VaultV1_from_bytes_call ==
    /\ call.f = "VaultV1" /\ call.stage = "encoded"
    /\ call' = [call EXCEPT !.stage = "decoded", !.value = VaultV1_from_bytes(call.bytes)]
    /\ UNCHANGED <<accounts, pc, ix, result, pre, initializations, history>>

Next_Codec ==
    \/ CounterV1_serialize_call
    \/ CounterV1_deserialize_call
    \/ VaultV1_to_bytes_call
    \/ VaultV1_from_bytes_call

CodecSpec == Init_Codec /\ [][Next_Codec]_vars

\* identities the address derivation is called with: the two wallets, the
\* all-zero and the all-255 key and a key of different bytes, under the two
\* programs and a third program identity
DeriveOwners ==
    {WalletKey("W1"), WalletKey("W2"), Repeat(0, 32), Repeat(255, 32),
     [j \in 1..32 |-> j + 2]}
DerivePrograms == {ProgramKey("CounterProgram"), ProgramKey("VaultProgram"), Repeat(13, 32)}

\* no derivation has been called yet
Init_Derive ==
    /\ accounts = [n \in Names |->
                     [lamports |-> IF n \in Wallets THEN InitialLamports(n)
                                   ELSE IF n = "Sys" THEN 1 ELSE 0,
                      data |-> <<>>,
                      owner |-> "Sys"]]
    /\ pc = "idle"
    /\ ix = NoInstruction
    /\ result = NoResult
    /\ pre = accounts
    /\ initializations = [s \in Storage |-> 0]
    /\ history = NoHistory
    /\ call = [f |-> "derive", results |-> <<>>]

\* find_counter_v1 is called
find_counter_v1_call ==
    /\ call.f = "derive"
    /\ Len(call.results) < MaxCalls
    /\ \E p \in DerivePrograms, o \in DeriveOwners :
          call' = [call EXCEPT !.results =
                      Append(@, [f |-> "find_counter_v1", program_id |-> p, owner |-> o,
                                 value |-> find_counter_v1(p, o)])]
    /\ UNCHANGED <<accounts, pc, ix, result, pre, initializations, history>>

\* try_find_counter_v1 is called
try_find_counter_v1_call ==
    /\ call.f = "derive"
    /\ Len(call.results) < MaxCalls
    /\ \E p \in DerivePrograms, o \in DeriveOwners :
          call' = [call EXCEPT !.results =
                      Append(@, [f |-> "try_find_counter_v1", program_id |-> p, owner |-> o,
                                 value |-> try_find_counter_v1(p, o)])]
    /\ UNCHANGED <<accounts, pc, ix, result, pre, initializations, history>>

\* find_vault_v1 is called
find_vault_v1_call ==
    /\ call.f = "derive"
    /\ Len(call.results) < MaxCalls
    /\ \E p \in DerivePrograms, o \in DeriveOwners :
          call' = [call EXCEPT !.results =
                      Append(@, [f |-> "find_vault_v1", program_id |-> p, owner |-> o,
                                 value |-> find_vault_v1(p, o)])]
    /\ UNCHANGED <<accounts, pc, ix, result, pre, initializations, history>>

\* try_find_vault_v1 is called
try_find_vault_v1_call ==
    /\ call.f = "derive"
    /\ Len(call.results) < MaxCalls
    /\ \E p \in DerivePrograms, o \in DeriveOwners :
          call' = [call EXCEPT !.results =
                      Append(@, [f |-> "try_find_vault_v1", program_id |-> p, owner |-> o,
                                 value |-> try_find_vault_v1(p, o)])]
    /\ UNCHANGED <<accounts, pc, ix, result, pre, initializations, history>>

\* derivations are called one after the other while lamports arrive at the
\* storage addresses of W1
Next_Derive ==
    \/ find_counter_v1_call
    \/ try_find_counter_v1_call
    \/ find_vault_v1_call
    \/ try_find_vault_v1_call
    \/ airdrop_lamports

DeriveSpec == Init_Derive /\ [][Next_Derive]_vars

----------------------------------------------------------------------------
(* Vocabulary of the properties *)

\* an instruction has returned and its result is on record
Returned == pc = "returned"
\* no instruction is in progress
Settled == pc \in {"idle", "returned"}

CounterOps == {"InitializeCounterV1", "DeactivateCounterV1", "DecrementCountV1",
               "IncrementCountV1", "SetCountV1", "ReactivateCounterV1"}
VaultOps == {"InitializeVaultV1", "DepositV1", "WithdrawV1", "DeactivateVaultV1",
             "ReactivateVaultV1"}
Operations == CounterOps \cup VaultOps
InitializeOps == {"InitializeCounterV1", "InitializeVaultV1"}
DeactivateOps == {"DeactivateCounterV1", "DeactivateVaultV1"}
ReactivateOps == {"ReactivateCounterV1", "ReactivateVaultV1"}

\* the storage account the instruction names
Target(i) == i.accounts[2].key

\* the storage address derived for the first account of instruction i
DerivedAddress(i) ==
    IF i.program = "CounterProgram"
    THEN find_counter_v1(ProgramKey(i.program), key(i.accounts[1])).address
    ELSE find_vault_v1(ProgramKey(i.program), key(i.accounts[1])).address

AddressMatches(i) == key(i.accounts[2]) = DerivedAddress(i)

\* some account of instruction i is wallet w and carries the signer flag
SignedBy(i, w) == \E j \in 1..Len(i.accounts) : i.accounts[j].key = w /\ i.accounts[j].is_signer

\* the error names of the address comparison, of the flag checks, of the
\* checks that read the storage account, and of the rest of the validation
AddressMismatch(op) ==
    IF op \in CounterOps THEN "CounterAddressMismatch" ELSE "VaultAddressMismatch"
MustBeEmpty(op) == IF op \in CounterOps THEN "CounterMustBeEmpty" ELSE "VaultMustBeEmpty"
FlagErrors == {"PayerMustBeSigner", "OwnerMustBeSigner", "PayerMustBeWriteable",
               "OwnerMustBeWritable", "OwnerMustBeWriteable", "CounterMustBeWriteable",
               "VaultMustBeWriteable"}
ContentErrors == {"CounterMustBeEmpty", "VaultMustBeEmpty", "CounterMustHaveZeroLamports",
                  "VaultMustHaveZeroLamports", "CounterMustBeOwnedBySystemProgram",
                  "VaultMustBeOwnedBySystemProgram", "CounterMustBeOwnedByProgram",
                  "VaultMustBeOwnedByProgram", "AccountDiscriminatorError"}
ValidationErrors ==
    {"NotEnoughAccounts", "CounterAddressMismatch", "VaultAddressMismatch",
     "SystemProgramAddressMismatch", "InvalidInstructionData"}
    \cup FlagErrors \cup ContentErrors

\* the operations whose validation has no writable check on the first account
NoFirstWritableCheck == {"InitializeCounterV1", "DecrementCountV1"}

\* a flag check of operation op fails on instruction i
FlagCheckFails(op, i) ==
    \/ ~is_signer(i.accounts[1])
    \/ op \notin NoFirstWritableCheck /\ ~is_writable(i.accounts[1])
    \/ ~is_writable(i.accounts[2])

\* the arity check has passed on the instruction on record
ArityPassed == result.op \in Operations /\ result.err # "NotEnoughAccounts"

\* the shape of a storage account
Shape(s, a) ==
    IF a.data = <<>> THEN "Uninitialized"
    ELSE IF a.data[1] = 1 /\ Len(a.data) = (IF s \in CounterStorage THEN CounterV1_size ELSE VaultV1_size)
    THEN "Active"
    ELSE IF a.data = <<255>> THEN "Deactivated"
    ELSE "Malformed"

----------------------------------------------------------------------------
(* Properties *)

\* C1: an operation passes validation, and so can succeed, only if its
\* first account carries the signer flag and the storage account it names
\* has the address derived for that first account; an instruction that is
\* not signed by the owner of a storage account leaves the data and the
\* size of that account as they were and takes no lamports out of it; and
\* an instruction that passes the arity and flag checks but names a storage
\* account other than the derived one returns the address-mismatch error.
C1_AuthorizationByDerivation ==
    /\ (result.op \in Operations /\ result.err \in {"Ok", "Pending"}) =>
          /\ is_signer(ix.accounts[1])
          /\ AddressMatches(ix)
    /\ \A s \in Storage :
          ~SignedBy(ix, OwnerOf(s)) =>
              /\ accounts[s].data = pre[s].data
              /\ accounts[s].lamports >= pre[s].lamports
    /\ (Returned /\ ArityPassed /\ ~FlagCheckFails(result.op, ix) /\ ~AddressMatches(ix)) =>
          /\ result.err = AddressMismatch(result.op)
          /\ accounts = pre

\* W2 signs a vault Deactivate that names the Active vault of W1, with every
\* flag set, and gets the address-mismatch error
C1_Witness ==
    /\ Returned
    /\ result.op = "DeactivateVaultV1"
    /\ ix.accounts[1].key = "W2" /\ is_signer(ix.accounts[1]) /\ is_writable(ix.accounts[1])
    /\ Target(ix) = "V1" /\ is_writable(ix.accounts[2])
    /\ Shape("V1", pre["V1"]) = "Active"
    /\ result.err = "VaultAddressMismatch"

\* C2: whenever no instruction is in progress, every storage account owned
\* by one of the two programs is either Active (leading byte 1, full record
\* size: 73 bytes for a counter, 34 for a vault) or Deactivated (the single
\* byte 255).
C2_DiscriminatorLifecycle ==
    Settled =>
        \A s \in Storage :
            accounts[s].owner # "Sys" =>
                /\ accounts[s].owner = ProgramOf(s)
                /\ Shape(s, accounts[s]) \in {"Active", "Deactivated"}
                /\ Shape(s, accounts[s]) = "Active" =>
                       Len(accounts[s].data) = (IF s \in CounterStorage THEN 73 ELSE 34)

\* a Deactivated counter beside an Active vault, after a failed instruction
C2_Witness ==
    /\ Returned
    /\ result.err \notin {"Ok", "Pending"}
    /\ Shape("C1", accounts["C1"]) = "Deactivated"
    /\ Shape("V1", accounts["V1"]) = "Active"
    /\ accounts["C1"].owner = "CounterProgram"

\* C3: in every state, every storage account that carries the Active
\* discriminator holds at least the rent-exempt minimum of its current data
\* length.
C3_RentExemption ==
    \A s \in Storage :
        (accounts[s].data # <<>> /\ accounts[s].data[1] = 1) =>
            accounts[s].lamports >= minimum_balance(Len(accounts[s].data))

\* a successful Withdraw has just taken an Active vault down to exactly the
\* rent-exempt minimum of its 34 bytes
C3_Witness ==
    /\ Returned
    /\ result.op = "WithdrawV1" /\ result.err = "Ok"
    /\ pre[Target(ix)].lamports > minimum_balance(VaultV1_size)
    /\ accounts[Target(ix)].lamports = minimum_balance(VaultV1_size)
    /\ Shape(Target(ix), accounts[Target(ix)]) = "Active"

\* C4: an Initialize whose target storage account already holds data
\* (Active or Deactivated) never gets past validation and leaves every
\* account as it was; when the instruction passes the checks that come
\* before the emptiness check (arity, flags, address) the error is
\* CounterMustBeEmpty / VaultMustBeEmpty.
C4_ReinitializationBlocked ==
    /\ (pc \in {"InitializeCounterV1_write", "InitializeVaultV1_write"}) =>
          pre[Target(ix)].data = <<>>
    /\ (Returned /\ result.op \in InitializeOps /\ Len(ix.accounts) >= 2
          /\ pre[Target(ix)].data # <<>>) =>
          /\ result.err # "Ok"
          /\ accounts = pre
          /\ (ArityPassed /\ ~FlagCheckFails(result.op, ix) /\ AddressMatches(ix)) =>
                 result.err = MustBeEmpty(result.op)

\* Initialize of a Deactivated counter is answered with CounterMustBeEmpty
C4_Witness ==
    /\ Returned
    /\ result.op = "InitializeCounterV1"
    /\ Shape(Target(ix), pre[Target(ix)]) = "Deactivated"
    /\ result.err = "CounterMustBeEmpty"
    /\ accounts = pre

\* C5: a storage account that holds data never goes back to empty data;
\* Initialize succeeds at most once for a storage account, and only on an
\* account that held no data; an instruction takes a storage account only
\* from Uninitialized to Active, from Active to Active, from Active to
\* Deactivated or from Deactivated to Active, or leaves its shape alone.
C5_NoReturnToUninitialized ==
    /\ \A s \in Storage :
          /\ initializations[s] <= 1
          /\ initializations[s] = 1 => accounts[s].data # <<>>
          /\ pre[s].data # <<>> => accounts[s].data # <<>>
    /\ (result.op \in InitializeOps /\ result.err \in {"Ok", "Pending"}) =>
          pre[Target(ix)].data = <<>>
    /\ Returned =>
          \A s \in Storage :
              <<Shape(s, pre[s]), Shape(s, accounts[s])>> \in
                  {<<"Uninitialized", "Uninitialized">>, <<"Uninitialized", "Active">>,
                   <<"Active", "Active">>, <<"Active", "Deactivated">>,
                   <<"Deactivated", "Deactivated">>, <<"Deactivated", "Active">>}

\* a vault that was initialized once and deactivated is reactivated
C5_Witness ==
    /\ Returned
    /\ result.op = "ReactivateVaultV1" /\ result.err = "Ok"
    /\ initializations[Target(ix)] = 1
    /\ Shape(Target(ix), pre[Target(ix)]) = "Deactivated"
    /\ Shape(Target(ix), accounts[Target(ix)]) = "Active"

\* the payload of the instruction on record is too short for its operation
PayloadTooShort ==
    result.op \in {"SetCountV1", "DepositV1", "WithdrawV1"} /\ Len(Parse(ix).args) < 8

\* C6: when the instruction discriminator does not parse, or the validation
\* of the operation (arity, flags, address, program address, discriminator
\* guard, payload) returns an error, no account is changed: no byte of data,
\* no size, no lamport balance, no owner.
C6_MutationOnlyAfterValidation ==
    (Returned /\ (result.op = "None" \/ result.err \in ValidationErrors \/ PayloadTooShort)) =>
        /\ result.err # "Ok"
        /\ accounts = pre

\* a Deposit whose accounts are all valid, on an Active vault, is rejected
\* for its payload and has moved nothing
C6_Witness ==
    /\ Returned
    /\ result.op = "DepositV1"
    /\ result.err = "InvalidInstructionData"
    /\ Shape(Target(ix), pre[Target(ix)]) = "Active"
    /\ key(ix.accounts[3]) = SystemID
    /\ accounts = pre

\* C7: in the validation of every operation the flag checks come before the
\* address comparison, and the address comparison before every check that
\* reads the storage account: an instruction that fails a flag check returns
\* a flag error whatever else is wrong with it, one that passes the flag
\* checks and names the wrong address returns the address-mismatch error
\* whatever the account holds, and an error of a check that reads the
\* account is returned only when flags and address are right.
C7_AuthorizationBeforeContent ==
    (Returned /\ ArityPassed) =>
        /\ FlagCheckFails(result.op, ix) => result.err \in FlagErrors
        /\ (~FlagCheckFails(result.op, ix) /\ ~AddressMatches(ix)) =>
               result.err = AddressMismatch(result.op)
        /\ result.err \in ContentErrors =>
               (~FlagCheckFails(result.op, ix) /\ AddressMatches(ix))

\* an Increment without the signer flag, on the wrong address, on an account
\* the program does not own, returns the signer error
C7_Witness ==
    /\ Returned
    /\ result.op = "IncrementCountV1"
    /\ ArityPassed
    /\ ~is_signer(ix.accounts[1])
    /\ ~AddressMatches(ix)
    /\ ~is_owned_by(pre, ix.accounts[2], ProgramKey(ix.program))
    /\ result.err = "OwnerMustBeSigner"

\* the discriminator guard of the operation on record fails on the data the
\* storage account held when the instruction arrived
GuardFails ==
    /\ pre[Target(ix)].data # <<>>
    /\ IF result.op = "DepositV1"
       THEN VaultAccountDiscriminator_check("VaultV1Account", pre[Target(ix)].data) # "Ok"
       ELSE IF result.op = "ReactivateVaultV1"
       THEN VaultAccountDiscriminator_check("DeactivatedAccount", pre[Target(ix)].data) # "Ok"
       ELSE CounterAccountDiscriminator_check("DeactivatedAccount", pre[Target(ix)].data) # "Ok"

\* C8: for the operations that take the system program account and run the
\* discriminator guard (vault Deposit, vault Reactivate, counter Reactivate),
\* an instruction that passes the arity, flag and address checks and has
\* both a wrong system-program address and a wrong stored discriminator
\* returns SystemProgramAddressMismatch.
C8_SystemProgramBeforeDiscriminator ==
    (Returned /\ ArityPassed
       /\ result.op \in {"DepositV1", "ReactivateVaultV1", "ReactivateCounterV1"}
       /\ ~FlagCheckFails(result.op, ix) /\ AddressMatches(ix)
       /\ key(ix.accounts[3]) # SystemID
       /\ GuardFails) =>
        result.err = "SystemProgramAddressMismatch"

\* C9: a storage account that is 1 byte long carries the byte 255, in every
\* state, the states between the steps of an operation included; when
\* Deactivate is about to resize, the discriminator is already 255 and
\* neither the size nor any balance has changed; when it is about to move
\* lamports, the account is already the single byte 255 and no balance has
\* changed.
C9_DeactivateStepOrder ==
    /\ \A s \in Storage : Len(accounts[s].data) = 1 => accounts[s].data[1] = 255
    /\ pc \in {"DeactivateCounterV1_resize", "DeactivateVaultV1_resize"} =>
          /\ accounts[Target(ix)].data[1] = 255
          /\ Len(accounts[Target(ix)].data) = Len(pre[Target(ix)].data)
          /\ Len(accounts[Target(ix)].data) > 1
          /\ \A n \in Names : accounts[n].lamports = pre[n].lamports
    /\ pc \in {"DeactivateCounterV1_lamports", "DeactivateVaultV1_lamports"} =>
          /\ accounts[Target(ix)].data = <<255>>
          /\ \A n \in Names : accounts[n].lamports = pre[n].lamports
    /\ (Returned /\ result.op \in DeactivateOps /\ result.err = "Ok") =>
          /\ accounts[Target(ix)].data = <<255>>
          /\ accounts[Target(ix)].lamports = minimum_balance(1)

\* Deactivate of a counter has rewritten the discriminator and not yet
\* resized: 73 bytes, the first of them 255
C9_Witness ==
    /\ pc = "DeactivateCounterV1_resize"
    /\ Len(accounts[Target(ix)].data) = 73
    /\ accounts[Target(ix)].data[1] = 255
    /\ pre[Target(ix)].data[1] = 1

SystemProgramMatches == Len(ix.accounts) >= 3 /\ key(ix.accounts[3]) = SystemID

\* C11: a successful Deactivate signed by owner O on an Active storage
\* account holding L lamports leaves the account with the single byte 255 and
\* exactly the rent-exempt minimum of 1 byte, credits exactly L minus that
\* minimum to O (for a vault: every lamport deposited and not withdrawn), and
\* touches no other account.
C11_DeactivateEffect ==
    (Returned /\ result.op \in DeactivateOps /\ result.err = "Ok") =>
        LET s == Target(ix)
            o == ix.accounts[1].key
            excess == pre[s].lamports - minimum_balance(1)
        IN /\ Shape(s, pre[s]) = "Active"
           /\ Len(accounts[s].data) = 1
           /\ accounts[s].data[1] = 255
           /\ accounts[s].lamports = minimum_balance(1)
           /\ accounts[s].owner = pre[s].owner
           /\ excess >= 0
           /\ accounts[o] = [pre[o] EXCEPT !.lamports = @ + excess]
           /\ \A n \in Names \ {s, o} : accounts[n] = pre[n]

\* a vault that holds a deposit above its rent-exempt minimum is deactivated
\* and the owner receives the deposit together with the rent difference
C11_Witness ==
    /\ Returned
    /\ result.op = "DeactivateVaultV1" /\ result.err = "Ok"
    /\ pre[Target(ix)].lamports > minimum_balance(VaultV1_size)
    /\ accounts[ix.accounts[1].key].lamports =
           pre[ix.accounts[1].key].lamports + pre[Target(ix)].lamports - minimum_balance(1)

\* C13: while the storage account an instruction names is Deactivated, every
\* operation other than Reactivate fails and changes no account; while it is
\* Active, Reactivate fails and changes no account, with the
\* account-discriminator error (mismatch) once flags, address and system
\* program are right; an operation runs or succeeds only from the shape it
\* expects: Active for mutate and Deactivate, Deactivated for Reactivate.
C13_LifecycleGating ==
    /\ (Returned /\ ArityPassed /\ result.op \notin ReactivateOps
          /\ Shape(Target(ix), pre[Target(ix)]) = "Deactivated") =>
          /\ result.err # "Ok"
          /\ accounts = pre
    /\ (Returned /\ ArityPassed /\ result.op \in ReactivateOps
          /\ Shape(Target(ix), pre[Target(ix)]) = "Active") =>
          /\ result.err # "Ok"
          /\ accounts = pre
          /\ (~FlagCheckFails(result.op, ix) /\ AddressMatches(ix) /\ SystemProgramMatches) =>
                 /\ result.err = "AccountDiscriminatorError"
                 /\ result.detail = "DiscriminatorMismatch"
    /\ (result.op \in Operations \ (InitializeOps \cup ReactivateOps)
          /\ result.err \in {"Ok", "Pending"}) =>
          Shape(Target(ix), pre[Target(ix)]) = "Active"
    /\ (result.op \in ReactivateOps /\ result.err \in {"Ok", "Pending"}) =>
          Shape(Target(ix), pre[Target(ix)]) = "Deactivated"

\* a well-formed Reactivate of an Active vault is answered with the
\* discriminator mismatch
C13_Witness ==
    /\ Returned
    /\ result.op = "ReactivateVaultV1"
    /\ Shape(Target(ix), pre[Target(ix)]) = "Active"
    /\ result.err = "AccountDiscriminatorError"
    /\ result.detail = "DiscriminatorMismatch"
    /\ accounts = pre

\* C14: Increment, Decrement, SetCount or Deactivate of the counter program,
\* well-formed and correctly addressed, on a counter account that holds the
\* Deactivated shape (the single byte 255), fails with the
\* account-discriminator mismatch error and never with a decode error.
C14_WrongKindRejection ==
    (Returned /\ ArityPassed
       /\ result.op \in {"IncrementCountV1", "DecrementCountV1", "SetCountV1", "DeactivateCounterV1"}
       /\ ~FlagCheckFails(result.op, ix) /\ AddressMatches(ix)
       /\ (result.op = "DeactivateCounterV1" => SystemProgramMatches)
       /\ ~PayloadTooShort
       /\ pre[Target(ix)].data = <<255>>) =>
        /\ result.err = "AccountDiscriminatorError"
        /\ result.detail = "DiscriminatorMismatch"

\* the operations that read a storage account that already holds a record
ReadingOps == Operations \ InitializeOps

\* the Discriminator Guard of operation op, for the kind op expects
GuardOf(op, data) ==
    IF op \in CounterOps
    THEN CounterAccountDiscriminator_check(
             IF op = "ReactivateCounterV1" THEN "DeactivatedAccount" ELSE "CounterV1Account", data)
    ELSE VaultAccountDiscriminator_check(
             IF op = "ReactivateVaultV1" THEN "DeactivatedAccount" ELSE "VaultV1Account", data)

\* the instruction on record got past its validation: execute has run, and
\* with it the decoding of the stored record
ExecuteEntered ==
    /\ result.op \in ReadingOps
    /\ \/ result.err \in {"Ok", "Pending"}
       \/ Returned /\ result.err \notin ValidationErrors /\ ~PayloadTooShort

\* C15: in every operation that reads existing storage, the record is
\* decoded, and its fields are read, only after the Discriminator Guard for
\* the expected kind has succeeded on the stored bytes.
C15_GuardBeforeDecode ==
    ExecuteEntered => GuardOf(result.op, pre[Target(ix)].data) = "Ok"

\* C12: a successful Reactivate of a counter, which can only follow a
\* successful Deactivate of it signed by the same owner, leaves an Active
\* counter of the full record size whose count is 0 whatever count the
\* deactivated record held, whose owner field is the payer, and whose
\* lamport balance is the rent-exempt minimum of the full record size.
C12_DeactivateReactivateRoundTrip ==
    (Returned /\ result.op = "ReactivateCounterV1" /\ result.err = "Ok") =>
        LET c == Target(ix)
            record == CounterV1_deserialize(accounts[c].data)
        IN /\ pre[c].data = <<255>>
           /\ initializations[c] = 1
           /\ Len(accounts[c].data) = CounterV1_size
           /\ record.err = "Ok"
           /\ record.discriminator = "CounterV1Account"
           /\ record.count = U64Zero
           /\ record.owner = key(ix.accounts[1])
           /\ accounts[c].owner = "CounterProgram"
           /\ accounts[c].lamports = minimum_balance(CounterV1_size)

\* a counter deactivated while its count was not 0 is reactivated and its
\* count is 0
C12_Witness ==
    /\ Returned
    /\ result.op = "ReactivateCounterV1" /\ result.err = "Ok"
    /\ history.dropped_count[Target(ix)]
    /\ CountOf(accounts, Target(ix)) = U64Zero
    /\ accounts[Target(ix)].lamports = minimum_balance(CounterV1_size)

\* the owner field of the record a storage account holds
StoredOwner(s, acc) ==
    IF s \in CounterStorage THEN CounterV1_deserialize(acc[s].data).owner
    ELSE VaultV1_from_bytes(acc[s].data).owner

\* the address the program of storage account s derives for identity o
Derive(s, o) ==
    IF s \in CounterStorage THEN find_counter_v1(ProgramKey("CounterProgram"), o).address
    ELSE find_vault_v1(ProgramKey("VaultProgram"), o).address

\* C17: in every state, the owner field stored in an Active counter or vault
\* record is an identity whose derived address is the address of the
\* account that holds the record; after a successful Initialize or
\* Reactivate it is the payer, and Increment, Decrement, SetCount, Deposit
\* and Withdraw leave it as it was.
C17_OwnerFieldInvariant ==
    /\ \A s \in Storage :
          Shape(s, accounts[s]) = "Active" =>
              Derive(s, StoredOwner(s, accounts)) = Pubkey(s)
    /\ (Returned /\ result.op \in InitializeOps \cup ReactivateOps /\ result.err = "Ok") =>
          StoredOwner(Target(ix), accounts) = key(ix.accounts[1])
    /\ (Returned /\ result.err = "Ok"
          /\ result.op \in {"IncrementCountV1", "DecrementCountV1", "SetCountV1",
                            "DepositV1", "WithdrawV1"}) =>
          StoredOwner(Target(ix), accounts) = StoredOwner(Target(ix), pre)

\* W2 has reactivated its vault and the record names W2
C17_Witness ==
    /\ Returned
    /\ result.op = "ReactivateVaultV1" /\ result.err = "Ok"
    /\ ix.accounts[1].key = "W2"
    /\ StoredOwner(Target(ix), accounts) = WalletKey("W2")
    /\ Derive(Target(ix), WalletKey("W2")) = Pubkey(Target(ix))

\* the instruction on record is a Withdraw that passes the validation: arity,
\* flags, address, program ownership, discriminator guard, payload
WithdrawValidated ==
    /\ Returned /\ result.op = "WithdrawV1" /\ ArityPassed
    /\ ~FlagCheckFails(result.op, ix) /\ AddressMatches(ix)
    /\ pre[Target(ix)].owner = "VaultProgram"
    /\ Shape(Target(ix), pre[Target(ix)]) = "Active"
    /\ ~PayloadTooShort

\* C18: a validated Withdraw of amount a from an Active vault holding L
\* lamports succeeds exactly when a <= L - rentMinimum(34); then the vault
\* loses exactly a, the owner gains exactly a and nothing else changes;
\* otherwise it fails with InsufficientFunds or WouldViolateRentMinimum and
\* no account changes.
C18_WithdrawProtectsRentMinimum ==
    WithdrawValidated =>
        LET v == Target(ix)
            o == ix.accounts[1].key
            a == WithdrawV1Args_parse(Parse(ix).args).amount
        IN IF a <= pre[v].lamports - minimum_balance(34)
           THEN /\ result.err = "Ok"
                /\ accounts[v] = [pre[v] EXCEPT !.lamports = @ - a]
                /\ accounts[o] = [pre[o] EXCEPT !.lamports = @ + a]
                /\ \A n \in Names \ {v, o} : accounts[n] = pre[n]
           ELSE /\ result.err \in {"InsufficientFunds", "WouldViolateRentMinimum"}
                /\ accounts = pre

\* a validated Withdraw asks for one lamport more than the vault holds above
\* its rent-exempt minimum and is refused
C18_Witness ==
    /\ WithdrawValidated
    /\ pre[Target(ix)].lamports > minimum_balance(34)
    /\ WithdrawV1Args_parse(Parse(ix).args).amount =
           pre[Target(ix)].lamports - minimum_balance(34) + 1
    /\ result.err = "InsufficientFunds"
    /\ accounts = pre

\* C19: a successful Deposit of amount a into an Active vault raises the
\* vault's lamports by exactly a, lowers the owner's by exactly a, and
\* changes nothing else: not the vault's data or size, no other account.
\* Over any sequence of successful deposits (and withdrawals) since the
\* vault became Active, the vault's balance is the balance it started with,
\* the rent-exempt minimum, plus the amounts deposited (less the amounts
\* withdrawn).
C19_DepositEffect ==
    /\ (Returned /\ result.op = "DepositV1" /\ result.err = "Ok") =>
          LET v == Target(ix)
              o == ix.accounts[1].key
              a == DepositV1Args_parse(Parse(ix).args).amount
          IN /\ Shape(v, pre[v]) = "Active"
             /\ a <= pre[o].lamports
             /\ accounts[v] = [pre[v] EXCEPT !.lamports = @ + a]
             /\ accounts[o] = [pre[o] EXCEPT !.lamports = @ - a]
             /\ \A n \in Names \ {v, o} : accounts[n] = pre[n]
             /\ accounts[v].lamports = minimum_balance(VaultV1_size) + history.deposited[v] + a
    /\ pc = "idle" =>
          \A v \in VaultStorage :
              Shape(v, accounts[v]) = "Active" =>
                  accounts[v].lamports = minimum_balance(VaultV1_size) + history.deposited[v]

\* a second deposit in a row: the vault already holds an earlier deposit and
\* receives one more
C19_Witness ==
    /\ Returned
    /\ result.op = "DepositV1" /\ result.err = "Ok"
    /\ history.deposited[Target(ix)] > 0
    /\ DepositV1Args_parse(Parse(ix).args).amount > 0
    /\ accounts[Target(ix)].lamports =
           minimum_balance(VaultV1_size) + history.deposited[Target(ix)]
               + DepositV1Args_parse(Parse(ix).args).amount

\* the full record size of the kind of account storage account s holds
FullSize(s) == IF s \in CounterStorage THEN CounterV1_size ELSE VaultV1_size

\* what a Reactivate of storage account s has to pay in when s holds c
\* lamports
Shortfall(s, c) ==
    IF minimum_balance(FullSize(s)) > c THEN minimum_balance(FullSize(s)) - c ELSE 0

\* the lamports of a Reactivate in progress or completed have moved: the
\* shortfall from the payer to the storage account, nothing when the
\* account already covers the minimum, and no other balance has changed
ReactivateFunded ==
    LET s == Target(ix)
        p == ix.accounts[1].key
        shortfall == Shortfall(s, pre[s].lamports)
    IN /\ accounts[s].lamports = pre[s].lamports + shortfall
       /\ accounts[p].lamports = pre[p].lamports - shortfall
       /\ accounts[s].lamports >= minimum_balance(FullSize(s))
       /\ \A n \in Names \ {s, p} : accounts[n] = pre[n]
       /\ accounts[p].data = pre[p].data /\ accounts[p].owner = pre[p].owner
       /\ accounts[s].owner = pre[s].owner

\* C20: a successful Reactivate of a Deactivated account holding C lamports
\* moves exactly max(0, rentMinimum(full record size) - C) lamports from the
\* payer to the storage account, nothing when C already covers the minimum;
\* the transfer comes first, then the account is grown to the full record
\* size, then a fresh default record whose owner is the payer is written.
C20_ReactivateFunding ==
    /\ pc \in {"ReactivateCounterV1_resize", "ReactivateVaultV1_resize"} =>
          /\ ReactivateFunded
          /\ accounts[Target(ix)].data = pre[Target(ix)].data
    /\ pc \in {"ReactivateCounterV1_write", "ReactivateVaultV1_write"} =>
          /\ ReactivateFunded
          /\ Len(accounts[Target(ix)].data) = FullSize(Target(ix))
          /\ accounts[Target(ix)].data[1] = pre[Target(ix)].data[1]
    /\ (Returned /\ result.op \in ReactivateOps /\ result.err = "Ok") =>
          /\ Shape(Target(ix), pre[Target(ix)]) = "Deactivated"
          /\ ReactivateFunded
          /\ Shape(Target(ix), accounts[Target(ix)]) = "Active"
          /\ StoredOwner(Target(ix), accounts) = key(ix.accounts[1])
          /\ result.op = "ReactivateCounterV1" =>
                accounts[Target(ix)].data =
                    CounterV1_serialize(
                        [discriminator |-> "CounterV1Account",
                         owner |-> key(ix.accounts[1]),
                         bump |-> find_counter_v1(ProgramKey("CounterProgram"),
                                                  key(ix.accounts[1])).bump,
                         count |-> U64Zero,
                         reserved |-> Repeat(0, 31)])
          /\ result.op = "ReactivateVaultV1" =>
                accounts[Target(ix)].data =
                    VaultV1_to_bytes(
                        [discriminator |-> "VaultV1Account",
                         owner |-> key(ix.accounts[1]),
                         bump |-> find_vault_v1(ProgramKey("VaultProgram"),
                                                key(ix.accounts[1])).bump])

\* a deactivated vault that held more than the rent-exempt minimum of the
\* full record has been reactivated and no lamports have moved
C20_Witness ==
    /\ Returned
    /\ result.op = "ReactivateVaultV1" /\ result.err = "Ok"
    /\ pre[Target(ix)].lamports > minimum_balance(VaultV1_size)
    /\ accounts[Target(ix)].lamports = pre[Target(ix)].lamports
    /\ accounts[ix.accounts[1].key].lamports = pre[ix.accounts[1].key].lamports
    /\ Shape(Target(ix), accounts[Target(ix)]) = "Active"

\* the kind a leading byte decodes to for guard f: 1 is the record of the
\* program, 255 the deactivated marker
KindOfByte(f, b) ==
    IF b = 255 THEN "DeactivatedAccount"
    ELSE IF f = "pinocchio_sol_vault_program::account_discriminator" THEN "VaultV1Account"
    ELSE "CounterV1Account"

\* the fixed size of kind k
FixedSize(k) ==
    IF k = "DeactivatedAccount" THEN DEACTIVATED_ACCOUNT_SIZE
    ELSE IF k = "VaultV1Account" THEN VaultV1_size
    ELSE CounterV1_size

\* the four failures and Ok, whatever the variant is called in the module
\* that returns it
GuardOutcome(value) ==
    IF value \in {"Mismatch", "DiscriminatorMismatch"} THEN "Mismatch"
    ELSE IF value \in {"SizeMismatch", "SerializedSizeMismatch"} THEN "SizeMismatch"
    ELSE value

\* a guard has been called and has returned
GuardReturned == call.f \in GuardImplementations /\ call.value # "None"

\* C16: for every expected kind K and every buffer B, check(K, B) is
\* Missing if B is empty; otherwise Invalid if B's first byte is neither 1
\* nor 255; otherwise Mismatch if the first byte is a valid kind other than
\* K; otherwise SizeMismatch if the length of B is not K's fixed size; and
\* Ok only when the first byte is K and the length is K's fixed size.
C16_GuardResult ==
    GuardReturned =>
        GuardOutcome(call.value) =
            IF call.data = <<>> THEN "Missing"
            ELSE IF call.data[1] \notin {1, 255} THEN "Invalid"
            ELSE IF KindOfByte(call.f, call.data[1]) # call.expected THEN "Mismatch"
            ELSE IF Len(call.data) # FixedSize(call.expected) THEN "SizeMismatch"
            ELSE "Ok"

\* C21: a successful Initialize signed by O finds the storage account
\* Uninitialized (empty data, zero lamports, owned by the system program)
\* and leaves it owned by the program that ran, with data of exactly the
\* record size, lamports of at least the rent-exempt minimum of that size,
\* and the record: discriminator Active, owner O, the derived bump, and for
\* a counter count 0 and reserved bytes all zero.
C21_InitializePostState ==
    (Returned /\ result.op \in InitializeOps /\ result.err = "Ok") =>
        LET s == Target(ix)
            O == key(ix.accounts[1])
        IN /\ pre[s] = [lamports |-> 0, data |-> <<>>, owner |-> "Sys"]
           /\ accounts[s].owner = ix.program
           /\ accounts[s].owner = ProgramOf(s)
           /\ Len(accounts[s].data) = FullSize(s)
           /\ accounts[s].lamports >= minimum_balance(FullSize(s))
           /\ accounts[s].data[1] = 1
           /\ result.op = "InitializeCounterV1" =>
                 CounterV1_deserialize(accounts[s].data) =
                     [err |-> "Ok",
                      discriminator |-> "CounterV1Account",
                      owner |-> O,
                      bump |-> find_counter_v1(ProgramKey("CounterProgram"), O).bump,
                      count |-> U64Zero,
                      reserved |-> Repeat(0, 31)]
           /\ result.op = "InitializeVaultV1" =>
                 VaultV1_from_bytes(accounts[s].data) =
                     [err |-> "Ok",
                      discriminator |-> "VaultV1Account",
                      owner |-> O,
                      bump |-> find_vault_v1(ProgramKey("VaultProgram"), O).bump]

\* W2 has initialized its counter: 73 bytes, owned by the counter program,
\* holding the rent-exempt minimum
C21_Witness ==
    /\ Returned
    /\ result.op = "InitializeCounterV1" /\ result.err = "Ok"
    /\ ix.accounts[1].key = "W2"
    /\ pre["C2"].data = <<>> /\ pre["C2"].lamports = 0
    /\ Len(accounts["C2"].data) = CounterV1_size
    /\ accounts["C2"].owner = "CounterProgram"
    /\ accounts["C2"].lamports = minimum_balance(CounterV1_size)
    /\ CountOf(accounts, "C2") = U64Zero

\* b is the u64 after a: the digits above some position agree, the digit at
\* that position is one more, and below it a is all 255 and b all 0
U64Succ(a, b) ==
    \E j \in 1..8 :
        /\ a[j] < 255 /\ b[j] = a[j] + 1
        /\ \A k \in 1..(j - 1) : b[k] = a[k]
        /\ \A k \in (j + 1)..8 : a[k] = 255 /\ b[k] = 0

\* execute of Increment or of Decrement has run on the counter of W1
CountCallReturned ==
    /\ call.f \in {"IncrementCountV1::execute", "DecrementCountV1::execute"}
    /\ call.value # "None"

\* C22: for every u64 count c, Increment succeeds and leaves c + 1 if
\* c < u64::MAX and u64::MAX if c = u64::MAX; Decrement succeeds and leaves
\* c - 1 if c > 0 and 0 if c = 0; neither wraps around, neither fails
\* because of the value of c.
C22_SaturatingCount ==
    CountCallReturned =>
        LET c == CountOf(pre, "C1")
            d == CountOf(accounts, "C1")
        IN /\ call.value = "Ok"
           /\ call.f = "IncrementCountV1::execute" =>
                 IF c = U64Max THEN d = U64Max ELSE U64Succ(c, d)
           /\ call.f = "DecrementCountV1::execute" =>
                 IF c = U64Zero THEN d = U64Zero ELSE U64Succ(d, c)

\* Increment has run on a count of u64::MAX and the count is still u64::MAX
C22_Witness ==
    /\ CountCallReturned
    /\ call.f = "IncrementCountV1::execute" /\ call.value = "Ok"
    /\ CountOf(pre, "C1") = U64Max
    /\ CountOf(accounts, "C1") = U64Max

\* the operations that change the count of an Active counter
MutateOps == {"IncrementCountV1", "DecrementCountV1", "SetCountV1"}

\* the positions of the count field in the 73 bytes of a counter record
CountField == 35..42

\* C23: a successful Increment, Decrement or SetCount changes only the 8
\* bytes of the count field of the counter record: the discriminator, the
\* owner, the bump, the reserved bytes, the data length, the owning program
\* and the lamport balance of the counter are as before, and so is every
\* other account.
C23_MutateFrame ==
    (Returned /\ result.op \in MutateOps /\ result.err = "Ok") =>
        LET c == Target(ix)
        IN /\ Len(pre[c].data) = CounterV1_size
           /\ Len(accounts[c].data) = Len(pre[c].data)
           /\ \A j \in (1..CounterV1_size) \ CountField :
                  accounts[c].data[j] = pre[c].data[j]
           /\ accounts[c].owner = pre[c].owner
           /\ accounts[c].lamports = pre[c].lamports
           /\ \A n \in Names \ {c} : accounts[n] = pre[n]

\* a SetCount has replaced the count of the counter and nothing else
C23_Witness ==
    /\ Returned
    /\ result.op = "SetCountV1" /\ result.err = "Ok"
    /\ CountOf(accounts, Target(ix)) # CountOf(pre, Target(ix))
    /\ SubSeq(accounts[Target(ix)].data, 1, 34) = SubSeq(pre[Target(ix)].data, 1, 34)
    /\ SubSeq(accounts[Target(ix)].data, 43, 73) = SubSeq(pre[Target(ix)].data, 43, 73)
    /\ accounts[Target(ix)].lamports = pre[Target(ix)].lamports

\* C24: a successful SetCount(v) leaves the count equal to v exactly, the 8
\* bytes of the instruction's payload being the 8 bytes of the count field,
\* whatever the count was before, so that after several SetCounts the count
\* is the value of the last one; and a SetCount by the owner of an Active
\* counter that carries a whole u64 succeeds.
C24_SetCountValue ==
    /\ (Returned /\ result.op = "SetCountV1" /\ result.err = "Ok") =>
          /\ Len(ix.data) >= 9
          /\ SubSeq(accounts[Target(ix)].data, 35, 42) = SubSeq(ix.data, 2, 9)
          /\ CountOf(accounts, Target(ix)) = Reverse(SubSeq(ix.data, 2, 9))
    /\ (Returned /\ result.op = "SetCountV1" /\ ArityPassed
          /\ ~FlagCheckFails(result.op, ix) /\ AddressMatches(ix)
          /\ ~PayloadTooShort
          /\ Shape(Target(ix), pre[Target(ix)]) = "Active") =>
          result.err = "Ok"

\* the count was 42, which only a SetCount(42) leaves, and a second SetCount
\* has made it u64::MAX
C24_Witness ==
    /\ Returned
    /\ result.op = "SetCountV1" /\ result.err = "Ok"
    /\ CountOf(pre, Target(ix)) = U64FromNat(42)
    /\ CountOf(accounts, Target(ix)) = U64Max
    /\ SubSeq(ix.data, 2, 9) = Repeat(255, 8)

\* W1 has completed the first n steps of the scenario and nothing else
ScenarioAt(n) == history.done = SubSeq(ScenarioSteps, 1, n)

\* the instruction on record is the next step of the scenario
NextScenarioStep ==
    /\ ix.accounts[1].key = "W1"
    /\ history.done # ScenarioLeft
    /\ Len(history.done) < Len(ScenarioSteps)
    /\ result.op = ScenarioSteps[Len(history.done) + 1]
    /\ (result.op = "SetCountV1" => Parse(ix).args = ScenarioValue)

\* C25: starting from no storage for owner O, every step of Initialize;
\* Increment three times; SetCount 42; Deactivate; Reactivate succeeds, and
\* the counter passes through (size 73, discriminator 1, count 0), (count
\* 3), (count 42), (size 1, discriminator 255, O's balance raised by the
\* counter's old lamports less the rent-exempt minimum of 1 byte) and
\* (size 73, discriminator 1, count 0, lamports = the rent-exempt minimum of
\* 73 bytes).
C25_EndToEndScenario ==
    /\ (Returned /\ NextScenarioStep) => result.err = "Ok"
    /\ (Returned /\ NextScenarioStep /\ result.op = "DeactivateCounterV1") =>
          accounts["W1"].lamports =
              pre["W1"].lamports + pre["C1"].lamports
                  - minimum_balance(DEACTIVATED_ACCOUNT_SIZE)
    /\ pc = "idle" =>
          /\ ScenarioAt(0) => accounts["C1"] = [lamports |-> 0, data |-> <<>>, owner |-> "Sys"]
          /\ ScenarioAt(1) =>
                /\ Len(accounts["C1"].data) = 73
                /\ accounts["C1"].data[1] = 1
                /\ CountOf(accounts, "C1") = U64FromNat(0)
          /\ ScenarioAt(2) => CountOf(accounts, "C1") = U64FromNat(1)
          /\ ScenarioAt(3) => CountOf(accounts, "C1") = U64FromNat(2)
          /\ ScenarioAt(4) => CountOf(accounts, "C1") = U64FromNat(3)
          /\ ScenarioAt(5) =>
                /\ Len(accounts["C1"].data) = 73
                /\ CountOf(accounts, "C1") = U64FromNat(42)
          /\ ScenarioAt(6) =>
                /\ accounts["C1"].data = <<255>>
                /\ accounts["C1"].lamports = minimum_balance(1)
          /\ ScenarioAt(7) =>
                /\ Len(accounts["C1"].data) = 73
                /\ accounts["C1"].data[1] = 1
                /\ CountOf(accounts, "C1") = U64FromNat(0)
                /\ accounts["C1"].lamports = minimum_balance(73)

\* W1 has run the whole scenario
C25_Witness ==
    /\ pc = "idle"
    /\ ScenarioAt(7)
    /\ Len(accounts["C1"].data) = 73
    /\ CountOf(accounts, "C1") = U64Zero
    /\ accounts["C1"].lamports = minimum_balance(73)

\* the names of the flag errors of operation op
MustBeSigner(op) ==
    IF op \in InitializeOps \cup ReactivateOps THEN "PayerMustBeSigner" ELSE "OwnerMustBeSigner"
FirstMustBeWritable == {"PayerMustBeWriteable", "OwnerMustBeWritable", "OwnerMustBeWriteable"}
StorageMustBeWritable(op) ==
    IF op \in CounterOps THEN "CounterMustBeWriteable" ELSE "VaultMustBeWriteable"

Required(op) ==
    IF op \in {"IncrementCountV1", "DecrementCountV1", "SetCountV1",
               "WithdrawV1", "DeactivateVaultV1"}
    THEN 2 ELSE 3

\* C27: for every operation, an account list whose length is not exactly the
\* required count, shorter or longer, is rejected with NotEnoughAccounts
\* carrying the required and the observed length, a list of the required
\* length never gets that error, and the rejection comes first: it is the
\* answer whatever else is wrong with the flags, the addresses or the
\* contents, and it changes no account.
C27_ExactArity ==
    (Returned /\ result.op \in Operations) =>
        /\ (Len(ix.accounts) # Required(result.op)) <=> (result.err = "NotEnoughAccounts")
        /\ result.err = "NotEnoughAccounts" =>
              /\ result.detail = [expected |-> Required(result.op),
                                  observed |-> Len(ix.accounts)]
              /\ accounts = pre

\* a list one account too long is rejected, and so is a list one account
\* short whose first account did not sign
C27_Witness ==
    /\ Returned
    /\ result.op \in Operations
    /\ result.err = "NotEnoughAccounts"
    /\ \/ Len(ix.accounts) = Required(result.op) + 1
       \/ /\ Len(ix.accounts) = Required(result.op) - 1
          /\ ~is_signer(ix.accounts[1])
\* the closed enumeration of a program's operations, by discriminator
Enumeration(f) ==
    IF f = "pinocchio_counter_program::InstructionDiscriminator::parse"
    THEN <<"InitializeCounterV1", "DeactivateCounterV1", "DecrementCountV1",
           "IncrementCountV1", "SetCountV1", "ReactivateCounterV1">>
    ELSE <<"InitializeVaultV1", "DepositV1", "WithdrawV1", "DeactivateVaultV1",
           "ReactivateVaultV1">>

\* parse has been applied to the instruction data
ParseReturned == call.f \in ParseFunctions /\ call.value.err # "None"

\* C28: for every instruction data D, parse fails with Missing if D is empty,
\* fails with Invalid(b) if the first byte b of D is outside the enumeration
\* (1..6 in the counter program, 1..5 in the vault program), and otherwise
\* returns the operation numbered b with the bytes after the first, unchanged,
\* as payload; process_instruction returns Missing as the custom code 1 and
\* Invalid as the custom code 2 and changes no account.
C28_InstructionParsing ==
    ParseReturned =>
        LET D == call.data
            E == Enumeration(call.f)
            v == call.value
        IN /\ D = <<>> => v.err = "Missing"
           /\ (D # <<>> /\ D[1] \notin 1..Len(E)) => (v.err = "Invalid" /\ v.byte = D[1])
           /\ (D # <<>> /\ D[1] \in 1..Len(E)) =>
                 /\ v.err = "Ok"
                 /\ v.op = E[D[1]]
                 /\ v.args = SubSeq(D, 2, Len(D))
           /\ v.err = "Ok" => pc = "idle"
           /\ Returned =>
                 /\ result.err = "ProgramError"
                 /\ result.detail = ProgramError_Custom(IF D = <<>> THEN 1 ELSE 2)
                 /\ accounts = pre

\* the vault program has rejected the first byte 6, which the counter program
\* accepts, with the custom code 2
C28_Witness ==
    /\ ParseReturned
    /\ Returned
    /\ call.f = "pinocchio_sol_vault_program::InstructionDiscriminator::parse"
    /\ call.data = <<6, 255>>
    /\ call.value.err = "Invalid" /\ call.value.byte = 6
    /\ result.detail = ProgramError_Custom(2)
\* the offset of each operation: 0x100 ... 0x600 in the counter program,
\* 0x100 ... 0x500 in the vault program
OperationOffset(op) ==
    CASE op \in {"InitializeCounterV1", "InitializeVaultV1"} -> 256
      [] op \in {"DeactivateCounterV1", "DepositV1"} -> 512
      [] op \in {"IncrementCountV1", "WithdrawV1"} -> 768
      [] op \in {"DecrementCountV1", "DeactivateVaultV1"} -> 1024
      [] op \in {"SetCountV1", "ReactivateVaultV1"} -> 1280
      [] op = "ReactivateCounterV1" -> 1536

\* handle_instruction_error has turned the error of an operation into the
\* program error the caller sees
CodeReturned == call.f = "handle_instruction_error" /\ call.returned

\* what the program surfaces for error e of operation op
Surfaced(program, op, e) ==
    IF program = "CounterProgram"
    THEN CounterInstructionError_into(OperationError_into(op, e))
    ELSE VaultInstructionError_into(OperationError_into(op, e))

\* c is a custom code made of the offset of op and a local code 0x01..0x0b
OwnCode(op, c) ==
    /\ "custom" \in DOMAIN c
    /\ c.custom - OperationOffset(op) \in 1..11

OwnErrors(program, op) ==
    {e \in OperationErrors(program, op) : e.variant # "ProgramError"}

Encoded == call.f \in {"CounterV1", "VaultV1"} /\ call.stage \in {"encoded", "decoded"}
Decoded == call.f \in {"CounterV1", "VaultV1"} /\ call.stage = "decoded"

\* C30: for every Counter record (any owner, bump, count and reserved bytes)
\* and every Vault record, the encoding has exactly the size of the kind, 73
\* bytes for a Counter and 34 for a Vault, and decoding the encoding succeeds
\* and gives back the record, field by field.
C30_CodecRoundTrip ==
    /\ Encoded => Len(call.bytes) = (IF call.f = "CounterV1" THEN 73 ELSE 34)
    /\ Encoded => Len(call.bytes) = (IF call.f = "CounterV1" THEN CounterV1_size
                                     ELSE VaultV1_size)
    /\ Decoded =>
          /\ call.value.err = "Ok"
          /\ call.value.discriminator = call.record.discriminator
          /\ call.value.owner = call.record.owner
          /\ call.value.bump = call.record.bump
          /\ call.f = "CounterV1" =>
                /\ call.value.count = call.record.count
                /\ call.value.reserved = call.record.reserved

\* a Vault record whose bump differs from the last byte of its owner, and a
\* Counter record whose count reads differently from either end, have come
\* back from the round trip
C30_Witness ==
    /\ Decoded
    /\ call.value.err = "Ok"
    /\ \/ /\ call.f = "VaultV1"
          /\ call.record.bump = 254 /\ call.record.owner[32] = 32
          /\ call.value.bump = 254
       \/ /\ call.f = "CounterV1"
          /\ call.record.count = <<1, 2, 3, 4, 5, 6, 7, 8>>
          /\ call.value.count = <<1, 2, 3, 4, 5, 6, 7, 8>>
          /\ call.record.reserved = [j \in 1..31 |-> j]
\* the storage kind a derivation finds the address of
DeriverKind(f) ==
    IF f \in {"find_counter_v1", "try_find_counter_v1"} THEN "Counter" ELSE "Vault"

C33_FundsFlowToOwner ==
    [][\A s \in Storage :
          accounts'[s].lamports < accounts[s].lamports =>
              LET debit == accounts[s].lamports - accounts'[s].lamports
              IN /\ result'.op \in {"WithdrawV1", "DeactivateVaultV1", "DeactivateCounterV1"}
                 /\ result'.err = "Ok"
                 /\ Target(ix') = s
                 /\ ix'.accounts[1].key = OwnerOf(s)
                 /\ ix'.accounts[1].is_signer
                 /\ accounts'[OwnerOf(s)].lamports = accounts[OwnerOf(s)].lamports + debit
                 /\ \A n \in Names \ {s, OwnerOf(s)} :
                       accounts'[n].lamports = accounts[n].lamports]_vars

\* a Withdraw of W2 has taken lamports out of the vault of W2 and W2 holds
\* them
C33_Witness ==
    /\ Returned
    /\ result.op = "WithdrawV1" /\ result.err = "Ok"
    /\ Target(ix) = "V2"
    /\ accounts["V2"].lamports < pre["V2"].lamports
    /\ accounts["W2"].lamports - pre["W2"].lamports = pre["V2"].lamports - accounts["V2"].lamports
\* the lamports of all accounts of ledger acc together
RECURSIVE TotalLamports(_, _)
TotalLamports(acc, S) ==
    IF S = {} THEN 0
    ELSE LET n == CHOOSE x \in S : TRUE
         IN acc[n].lamports + TotalLamports(acc, S \ {n})

\* the operations that move lamports between a storage account and the wallet
\* that signs
MovingOps ==
    {"DepositV1", "WithdrawV1", "DeactivateVaultV1", "DeactivateCounterV1",
     "ReactivateVaultV1", "ReactivateCounterV1"}

\* C34: a successful Deposit, Withdraw, Deactivate or Reactivate leaves the
\* lamports of the storage account and of the signing wallet together as
\* they were, what one loses the other gains; an instruction that fails
\* leaves every balance as it was; no instruction changes the lamports of all
\* accounts together.
C34_LamportConservation ==
    Returned =>
        /\ (result.op \in MovingOps /\ result.err = "Ok") =>
              LET s == Target(ix)
                  w == ix.accounts[1].key
              IN /\ accounts[s].lamports + accounts[w].lamports
                      = pre[s].lamports + pre[w].lamports
                 /\ \A n \in Names \ {s, w} : accounts[n].lamports = pre[n].lamports
        /\ result.err # "Ok" => \A n \in Names : accounts[n].lamports = pre[n].lamports
        /\ TotalLamports(accounts, Names) = TotalLamports(pre, Names)

\* a Reactivate of a counter has succeeded and the payer has paid in what the
\* counter account gained
C34_Witness ==
    /\ Returned
    /\ result.op = "ReactivateCounterV1" /\ result.err = "Ok"
    /\ accounts[Target(ix)].lamports > pre[Target(ix)].lamports
    /\ accounts[Target(ix)].lamports - pre[Target(ix)].lamports
         = pre[ix.accounts[1].key].lamports - accounts[ix.accounts[1].key].lamports
----------------------------------------------------------------------------
(* Withdraw's second resource check *)

\* the two resource checks of WithdrawV1::execute on a vault holding
\* vault_lamports: the amount passes the InsufficientFunds check
PassesInsufficientFunds(vault_lamports, amount) ==
    ~(saturating_sub(vault_lamports, minimum_balance(VaultV1_size)) < amount)
\* the amount passes the WouldViolateRentMinimum check
PassesRentMinimum(vault_lamports, amount) ==
    ~(saturating_sub(vault_lamports, amount) < minimum_balance(VaultV1_size))

\* C35: Withdraw's second resource check never fires: in every reachable
\* state, an amount that passes the InsufficientFunds check on an Active vault
\* (amount <= vault lamports saturating-minus rentMinimum(34)) also passes the
\* check remaining < rentMinimum, for the amounts the instructions carry and
\* for every other amount; no Withdraw returns WouldViolateRentMinimum.
C35_SecondCheckNeverFires ==
    /\ (Returned /\ result.op = "WithdrawV1") => result.err # "WouldViolateRentMinimum"
    /\ WithdrawValidated =>
          LET a == WithdrawV1Args_parse(Parse(ix).args).amount
              L == pre[Target(ix)].lamports
          IN PassesInsufficientFunds(L, a) => PassesRentMinimum(L, a)
    /\ Settled =>
          \A v \in VaultStorage :
              Shape(v, accounts[v]) = "Active" =>
                  \A amount \in 0..(saturating_sub(accounts[v].lamports,
                                                   minimum_balance(VaultV1_size)) + 1) :
                      PassesInsufficientFunds(accounts[v].lamports, amount)
                          => PassesRentMinimum(accounts[v].lamports, amount)

\* a validated Withdraw takes everything above the rent-exempt minimum: it
\* passes the first check with equality, passes the second and succeeds
C35_Witness ==
    /\ WithdrawValidated
    /\ result.err = "Ok"
    /\ WithdrawV1Args_parse(Parse(ix).args).amount > 0
    /\ PassesInsufficientFunds(pre[Target(ix)].lamports,
                               WithdrawV1Args_parse(Parse(ix).args).amount)
    /\ accounts[Target(ix)].lamports = minimum_balance(VaultV1_size)
----------------------------------------------------------------------------
(* The stored-owner check *)

\* the operations whose execute stage compares the stored owner with the signer
OwnerCheckedOps == {"DepositV1", "WithdrawV1", "IncrementCountV1", "DecrementCountV1",
                    "SetCountV1", "DeactivateCounterV1"}

\* the instruction on record has passed the validation of its operation:
\* arity, flags, address derivation, program ownership, discriminator guard,
\* payload
ValidationPassed ==
    /\ Returned /\ ArityPassed
    /\ ~FlagCheckFails(result.op, ix) /\ AddressMatches(ix)
    /\ pre[Target(ix)].owner = ix.program
    /\ Shape(Target(ix), pre[Target(ix)]) = "Active"
    /\ ~PayloadTooShort

----------------------------------------------------------------------------
(* Availability of Initialize *)

\* how many times the storage account of the Initialize on record had been
\* initialized when the instruction started: a successful Initialize has
\* counted itself
InitializationsBefore ==
    initializations[Target(ix)] - (IF result.err = "Ok" THEN 1 ELSE 0)

\* the instruction on record is a well-formed Initialize signed by the owner
\* of a storage account this program has never initialized, and the owner
\* holds the rent-exempt minimum of the record
WellFormedInitialize ==
    /\ Returned /\ result.op \in InitializeOps /\ ArityPassed
    /\ is_signer(ix.accounts[1]) /\ is_writable(ix.accounts[1])
    /\ is_writable(ix.accounts[2])
    /\ AddressMatches(ix) /\ SystemProgramMatches
    /\ InitializationsBefore = 0
    /\ pre[Target(ix)].data = <<>>
    /\ pre[ix.accounts[1].key].lamports >= minimum_balance(FullSize(Target(ix)))

\* C37: Initialize availability as stated: a well-formed Initialize signed by
\* O on a storage account never initialized by the program, with enough funds
\* for the rent-exempt minimum, succeeds whatever lamports other parties have
\* transferred to the derived address beforehand.
C37_InitializeAvailability ==
    WellFormedInitialize => result.err = "Ok"

\* C37, amended: such an Initialize succeeds when the derived address holds
\* zero lamports; when the address holds lamports that somebody transferred to
\* it, the Initialize fails with CounterMustHaveZeroLamports or
\* VaultMustHaveZeroLamports and changes no account.
C37_InitializeAvailabilityAmended ==
    WellFormedInitialize =>
        IF pre[Target(ix)].lamports = 0
        THEN result.err = "Ok"
        ELSE /\ result.err = (IF ix.program = "CounterProgram"
                              THEN "CounterMustHaveZeroLamports"
                              ELSE "VaultMustHaveZeroLamports")
             /\ accounts = pre

\* lamports have been transferred to the derived vault address of W1 and the
\* well-formed Initialize of W1 is refused
C37_Witness ==
    /\ WellFormedInitialize
    /\ result.op = "InitializeVaultV1"
    /\ ix.accounts[1].key = "W1"
    /\ pre[Target(ix)].lamports > 0
    /\ result.err = "VaultMustHaveZeroLamports"
----------------------------------------------------------------------------
(* The lifecycle has no dead end *)

\* the instruction on record is well formed and signed by the owner of the
\* storage account it names: the account list has the arity of the operation,
\* the owner signs and is writable, the storage account is writable and is the
\* address derived for the owner, and the third account, where the operation
\* has one, is the system program
WellFormedByOwner ==
    /\ Returned /\ ArityPassed
    /\ is_signer(ix.accounts[1]) /\ is_writable(ix.accounts[1])
    /\ is_writable(ix.accounts[2])
    /\ AddressMatches(ix)
    /\ Len(ix.accounts) >= 3 => SystemProgramMatches

\* C38: the lifecycle has no dead end: from every reachable Active state a
\* well-formed Deactivate signed by the owner succeeds and leaves the account
\* Deactivated, and from every reachable Deactivated state a well-formed
\* Reactivate signed by the owner who holds at least the shortfall
\* rentMinimum(full size) - current lamports succeeds and leaves a valid
\* Active account, rent exempt and naming the owner; since this holds in every
\* reachable state, the cycle can be repeated.
C38_NoDeadEnd ==
    /\ (WellFormedByOwner /\ result.op \in DeactivateOps
          /\ pre[Target(ix)].owner = ix.program
          /\ Shape(Target(ix), pre[Target(ix)]) = "Active") =>
              /\ result.err = "Ok"
              /\ Shape(Target(ix), accounts[Target(ix)]) = "Deactivated"
    /\ (WellFormedByOwner /\ result.op \in ReactivateOps
          /\ pre[Target(ix)].owner = ix.program
          /\ Shape(Target(ix), pre[Target(ix)]) = "Deactivated"
          /\ pre[ix.accounts[1].key].lamports
                >= Shortfall(Target(ix), pre[Target(ix)].lamports)) =>
              /\ result.err = "Ok"
              /\ Shape(Target(ix), accounts[Target(ix)]) = "Active"
              /\ accounts[Target(ix)].lamports >= minimum_balance(FullSize(Target(ix)))
              /\ StoredOwner(Target(ix), accounts) = key(ix.accounts[1])

\* W2, who cannot keep a counter and a vault active together, has reactivated
\* its counter while its vault is Deactivated: the counter has been through
\* Deactivate and Reactivate and is Active again
C38_Witness ==
    /\ WellFormedByOwner
    /\ result.op = "ReactivateCounterV1" /\ result.err = "Ok"
    /\ ix.accounts[1].key = "W2"
    /\ Shape(Target(ix), pre[Target(ix)]) = "Deactivated"
    /\ Shape(Target(ix), accounts[Target(ix)]) = "Active"
    /\ Shape(VaultOf("W2"), accounts[VaultOf("W2")]) = "Deactivated"
----------------------------------------------------------------------------
(* Error-code totality *)

\* the instruction on record has ended with one of the operation's own error
\* variants, which the dispatcher has to turn into a numeric code
OwnVariantReturned ==
    /\ Returned /\ result.op \in Operations
    /\ result.err \notin {"Ok", "ProgramError"}

\* C39: error-code totality: every error variant that the validation or the
\* execute stage of an operation returns (counter Reactivate's
\* PayerMustBeWriteable and vault Deposit's SystemProgramAddressMismatch
\* among them) has an arm in the dispatcher's conversion, which maps it to one
\* code in the operation's own range: the operation's offset plus a local
\* code in 0x01..0x0b.
C39_ErrorCodeTotality ==
    OwnVariantReturned =>
        /\ result.err \in DOMAIN LocalCodes(ix.program)[result.op]
        /\ OwnCode(result.op, Surfaced(ix.program, result.op, [variant |-> result.err]))

====
